---------------------------- MODULE Spec2Model ----------------------------
(***************************************************************************)
(* Model of the two Tasmota MiElHVAC climate integrations:                 *)
(*   static variant    : custom_components/MiElHVAC_tasmota/climate.py     *)
(*   discovery variant : custom_components/tasmota_mielhvac/climate.py     *)
(*                       custom_components/tasmota_mielhvac/__init__.py    *)
(*                                                                         *)
(* Python values are tagged records [k, n, s]; numbers are held in tenths  *)
(* (21.9 is 219).  Strings the code transforms (device ids, MACs) are      *)
(* sequences of one-character strings.                                     *)
(*                                                                         *)
(* tasks is the bag of tasks the event loop has not run yet, one copy per  *)
(* hass.async_create_task call; cmd is the bag of command calls suspended  *)
(* in their awaited publish; restored tells that async_added_to_hass has   *)
(* passed its restore and is at, or past, its awaited subscribe.           *)
(*                                                                         *)
(* hvac_mode_map is the mode table of const.py, which is not among the     *)
(* sources: it is fixed when the module is loaded and never changes.       *)
(***************************************************************************)
EXTENDS Integers, Sequences, FiniteSets, Bags, TLC

VARIABLES variant, hvac_mode_map, pc, restored, ent, subs, tasks, cmd, retained,
          last, entry, discovered, created, signals, configured, batch, reply

vars == <<variant, hvac_mode_map, pc, restored, ent, subs, tasks, cmd, retained,
          last, entry, discovered, created, signals, configured, batch, reply>>

(***************************************************************************)
(* Bounds of the model.                                                    *)
(***************************************************************************)
MaxSignals == 2

MaxPayloadKeys == 1

\* Commands suspended in their awaited publish at one time.
MaxPending == 2

\* Tasks waiting on the event loop when a discovery signal arrives.
MaxTasks == 2

(***************************************************************************)
(* Python values.                                                          *)
(***************************************************************************)
None == [k |-> "null", n |-> 0, s |-> ""]
Absent == [k |-> "absent", n |-> 0, s |-> ""]
ListV == [k |-> "list", n |-> 0, s |-> ""]

Num(n) == [k |-> "num", n |-> n, s |-> ""]

Str(s) == [k |-> "str", n |-> 0, s |-> s]

\* A MAC-like value: a string of characters, None, or a JSON number.
NoMac == [k |-> "null", c |-> << >>, n |-> 0]
AbsentMac == [k |-> "absent", c |-> << >>, n |-> 0]
MacNum(n) == [k |-> "num", c |-> << >>, n |-> n]
NumMac == MacNum(5)
ZeroMac == MacNum(0)

MacStr(c) == [k |-> "str", c |-> c, n |-> 0]

\* Python truthiness of a value (bool(v)).
Truthy(v) ==
    CASE v.k = "null" -> FALSE
      [] v.k = "absent" -> FALSE
      [] v.k = "str" -> v.s # ""
      [] v.k = "num" -> v.n # 0
      [] v.k = "list" -> FALSE
      [] OTHER -> TRUE

TruthyMac(m) ==
    CASE m.k = "str" -> m.c # << >>
      [] m.k = "num" -> m.n # 0
      [] OTHER -> FALSE

(***************************************************************************)
(* const.py (not among the sources).  The specification says the mode     *)
(* table is a fixed bidirectional table between the six semantic modes and *)
(* their wire codes, and that the action is a function of the mode code;   *)
(* it does not give the codes.                                             *)
(***************************************************************************)
\* The table whose wire codes are the names of the modes, as the mode list
\* and the mode_state_template of the discovery document have them.
NamedTable == [c \in {"off", "auto", "cool", "dry", "heat", "fan_only"} |-> c]

\* Tables const.py may hold: the named one, one with a code that is not the
\* name of its mode, and one whose codes are no mode names at all.
ModeTables ==
    {NamedTable,
     [c \in {"off", "auto", "cool", "dry", "heat", "fan"} |->
         IF c = "fan" THEN "fan_only" ELSE c],
     [c \in {"0", "1", "2", "3", "7", "8"} |->
         CASE c = "0" -> "off"
           [] c = "1" -> "heat"
           [] c = "2" -> "dry"
           [] c = "3" -> "cool"
           [] c = "7" -> "fan_only"
           [] c = "8" -> "auto"]}

HVAC_MODE_MAP == hvac_mode_map

WireCodes == DOMAIN HVAC_MODE_MAP

\* The reverse table: from each semantic mode of the table to its wire code.
HVAC_MODE_REVERSE_MAP ==
    [m \in {HVAC_MODE_MAP[c] : c \in WireCodes} |->
        CHOOSE c \in WireCodes : HVAC_MODE_MAP[c] = m]

ACTION_MAP ==
    [c \in WireCodes |->
        CASE HVAC_MODE_MAP[c] = "off" -> "off"
          [] HVAC_MODE_MAP[c] = "auto" -> "idle"
          [] HVAC_MODE_MAP[c] = "cool" -> "cooling"
          [] HVAC_MODE_MAP[c] = "dry" -> "drying"
          [] HVAC_MODE_MAP[c] = "heat" -> "heating"
          [] HVAC_MODE_MAP[c] = "fan_only" -> "fan"]

FAN_MODES == {"auto", "quiet", "1", "2", "3", "4"}

SWING_V_MODES == {"auto", "up", "up_middle", "center", "down_middle", "down", "swing"}

DEFAULT_MODEL == "MiElHVAC"

(***************************************************************************)
(* Conversions.                                                            *)
(***************************************************************************)
\* float(v): the value in tenths, or the exception Python raises.
\* float("22") is 22.0, float("abc") is a ValueError, float(None) and
\* float([]) are TypeErrors.
NumericStrings == {"21", "22"}

float(v) ==
    CASE v.k = "num" -> [exc |-> "none", v |-> Num(v.n)]
      [] v.k = "str" ->
            IF v.s \in NumericStrings
            THEN [exc |-> "none", v |-> Num(IF v.s = "21" THEN 210 ELSE 220)]
            ELSE [exc |-> "ValueError", v |-> None]
      [] OTHER -> [exc |-> "TypeError", v |-> None]

\* dict.get(key, default) on the two mode tables: an unhashable key raises.
Hashable(v) == v.k # "list"

HVAC_MODE_MAP_get(v) ==
    IF v.k = "str" /\ v.s \in DOMAIN HVAC_MODE_MAP THEN HVAC_MODE_MAP[v.s] ELSE "off"

ACTION_MAP_get(v) ==
    IF v.k = "str" /\ v.s \in DOMAIN ACTION_MAP THEN ACTION_MAP[v.s] ELSE "off"

\* str.upper() on the characters of a MAC address.
UpperChar(ch) ==
    CASE ch = "a" -> "A"
      [] ch = "b" -> "B"
      [] ch = "c" -> "C"
      [] ch = "d" -> "D"
      [] ch = "e" -> "E"
      [] ch = "f" -> "F"
      [] OTHER -> ch

IsNotColon(ch) == ch # ":"

\* The key without the upper-casing: mac.replace(":", "").
MacClean_keep_case(c) == SelectSeq(c, IsNotColon)

\* mac.replace(":", "").upper()
MacClean(c) ==
    LET stripped == SelectSeq(c, IsNotColon)
    IN  [i \in 1..Len(stripped) |-> UpperChar(stripped[i])]

(***************************************************************************)
(* Topics: <prefix>/<middle>/<leaf>, the middle being a character string.  *)
(***************************************************************************)
Topic(pfx, mid, leaf) == [pfx |-> pfx, mid |-> mid, leaf |-> leaf]

topic_avail(B) == Topic("tele", B, "LWT")

topic_sensor(B) == Topic("tele", B, "SENSOR")

topic_state(B) == Topic("tele", B, "HVACSETTINGS")

topic_status1(B) == Topic("stat", B, "STATUS1")

topic_cmd_mode(B) == Topic("cmnd", B, "HVACSetHAMode")

topic_cmd_temp(B) == Topic("cmnd", B, "HVACSetTemp")

topic_cmd_swing_v(B) == Topic("cmnd", B, "HVACSetSwingV")

topic_cmd_swing_h(B) == Topic("cmnd", B, "HVACSetSwingH")

topic_cmd_fan(B) == Topic("cmnd", B, "HVACSetFanSpeed")

topic_status_request(B) == Topic("cmnd", B, "Status")

\* f"homeassistant/climate/{mac_clean}_mielhvac/config"
discovery_topic(mac_clean) == Topic("homeassistant/climate", mac_clean, "_mielhvac/config")


(***************************************************************************)
(* MQTT messages.                                                          *)
(***************************************************************************)
Text(s) == [k |-> "text", s |-> s]

Publish(topic, payload, qos, retain) ==
    [topic |-> topic, payload |-> payload, qos |-> qos, retain |-> retain]

\* Tasks handed to hass.async_create_task: they run later, on the event loop.
Task(t, pub) == [t |-> t, pub |-> pub]

(***************************************************************************)
(* The entity and its constructors.                                        *)
(***************************************************************************)
\* MiElHVACTasmota.__init__ of the discovery variant (without its tasks).
NewEntity(device_id, mac, device_name) ==
    [device_id |-> device_id,
     base_topic |-> device_id,
     model |-> DEFAULT_MODEL,
     mac_address |-> mac,
     device_name |-> device_name,
     attr_device_info |-> IF TruthyMac(mac) THEN MacStr(MacClean(mac.c)) ELSE NoMac,
     attr_current_temperature |-> None,
     attr_target_temperature |-> None,
     attr_hvac_mode |-> "off",
     attr_hvac_action |-> "off",
     attr_fan_mode |-> Str("auto"),
     attr_swing_mode |-> Str("auto"),
     swing_h_mode |-> Str("auto"),
     available |-> FALSE]

\* The data of a config entry of the static variant: the device id, and the
\* base topic and the model when the entry has them.
EntryData(device_id, base_topic, model) ==
    [device_id |-> device_id, base_topic |-> base_topic, model |-> model]

\* MiElHVACTasmota.__init__ of the static variant: identity, base topic
\* and model come from the config entry, there is no MAC and no device
\* name from discovery.
NewStaticEntity(data) ==
    [NewEntity(data.device_id, NoMac, NoMac) EXCEPT
        !.base_topic = IF data.base_topic.k = "absent" THEN data.device_id
                       ELSE data.base_topic.c,
        !.model = IF data.model.k = "absent" THEN DEFAULT_MODEL ELSE data.model.s,
        !.attr_device_info = MacStr(data.device_id)]

\* The tasks the discovery variant's constructor creates.
request_device_info(e) ==
    Task("status_request", Publish(topic_status_request(e.base_topic), Text("1"), 1, FALSE))

\* _publish_mqtt_discovery_delayed publishes nothing itself: after its sleep
\* it calls _publish_mqtt_discovery.
NoPublish == Publish(Topic("", << >>, ""), Text(""), 0, FALSE)

publish_mqtt_discovery_delayed(e) == Task("delayed", NoPublish)

\* A constructor that requests the device's status whether or not it was
\* given a MAC.
InitTasks_always_request(e) ==
    IF ~ TruthyMac(e.mac_address)
    THEN {request_device_info(e)}
    ELSE {request_device_info(e), publish_mqtt_discovery_delayed(e)}

InitTasks(e) ==
    IF ~ TruthyMac(e.mac_address)
    THEN {request_device_info(e)}
    ELSE {publish_mqtt_discovery_delayed(e)}

(***************************************************************************)
(* The discovery document.                                                 *)
(***************************************************************************)
\* A document that always shows the device id.
DiscoveryConfig_id_as_name(e, mac_clean) ==
    [k |-> "doc",
     unique_id |-> mac_clean,
     connections |-> mac_clean,
     device_name |-> e.device_id,
     availability_topic |-> topic_avail(e.base_topic),
     temperature_command_topic |-> topic_cmd_temp(e.base_topic),
     temperature_state_topic |-> topic_state(e.base_topic),
     current_temperature_topic |-> topic_sensor(e.base_topic),
     mode_command_topic |-> topic_cmd_mode(e.base_topic),
     mode_state_topic |-> topic_state(e.base_topic),
     fan_mode_command_topic |-> topic_cmd_fan(e.base_topic),
     fan_mode_state_topic |-> topic_state(e.base_topic),
     swing_mode_command_topic |-> topic_cmd_swing_v(e.base_topic),
     swing_mode_state_topic |-> topic_state(e.base_topic)]

DiscoveryConfig(e, mac_clean) ==
    [k |-> "doc",
     unique_id |-> mac_clean,
     connections |-> mac_clean,
     device_name |-> IF TruthyMac(e.device_name) THEN e.device_name.c ELSE e.device_id,
     availability_topic |-> topic_avail(e.base_topic),
     temperature_command_topic |-> topic_cmd_temp(e.base_topic),
     temperature_state_topic |-> topic_state(e.base_topic),
     current_temperature_topic |-> topic_sensor(e.base_topic),
     mode_command_topic |-> topic_cmd_mode(e.base_topic),
     mode_state_topic |-> topic_state(e.base_topic),
     fan_mode_command_topic |-> topic_cmd_fan(e.base_topic),
     fan_mode_state_topic |-> topic_state(e.base_topic),
     swing_mode_command_topic |-> topic_cmd_swing_v(e.base_topic),
     swing_mode_state_topic |-> topic_state(e.base_topic)]

\* _publish_mqtt_discovery: the exception it raises and the tasks it creates.
publish_mqtt_discovery(e) ==
    IF ~ TruthyMac(e.mac_address)
    THEN [exc |-> "none", sched |-> {}]
    ELSE IF e.mac_address.k # "str"
    THEN [exc |-> "AttributeError", sched |-> {}]
    ELSE LET mac_clean == MacClean(e.mac_address.c)
         IN  [exc |-> "none",
              sched |-> {Task("publish",
                              Publish(discovery_topic(mac_clean),
                                      DiscoveryConfig(e, mac_clean), 1, TRUE))}]

(***************************************************************************)
(* Message handlers, as functions of the entity and the payload.  A result *)
(* holds the entity afterwards, the exception that reached the caller      *)
(* ("none", also when the handler caught one), whether the handler caught  *)
(* an exception, whether async_write_ha_state was called, and the tasks    *)
(* created.                                                                *)
(***************************************************************************)
Result(e, exc, caught, notified, sched) ==
    [e |-> e, exc |-> exc, caught |-> caught, notified |-> notified, sched |-> sched]

Raised(e, exc) ==
    IF exc \in {"JSONDecodeError", "ValueError", "KeyError"}
    THEN Result(e, "none", TRUE, FALSE, {})
    ELSE Result(e, exc, FALSE, FALSE, {})

\* A handler that also forgets the measured temperature when the device
\* goes offline.
availability_received_clears_temperature(e, payload) ==
    Result([e EXCEPT !.available = (payload = "Online"),
                     !.attr_current_temperature = IF payload = "Offline" THEN None ELSE @],
           "none", FALSE, TRUE, {})

\* A handler for which everything but "Offline" means available.
availability_received_unless_offline(e, payload) ==
    Result([e EXCEPT !.available = (payload # "Offline")], "none", FALSE, TRUE, {})

\* availability_received
availability_received(e, payload) ==
    Result([e EXCEPT !.available = (payload = "Online")], "none", FALSE, TRUE, {})

\* current_temp_received.  A SENSOR payload p: p.k is the JSON kind of the
\* payload, p.key its one top-level key, p.mk the kind of the value under
\* that key and p.t the Temperature inside it (Absent when missing).
\* A handler that forgets the measured temperature when the payload has
\* none.
current_temp_received_reset(e, p) ==
    IF p.k = "badjson" THEN Raised(e, "JSONDecodeError")
    ELSE IF p.k # "object" THEN Raised(e, "AttributeError")
    ELSE IF p.key # e.model
    THEN Result([e EXCEPT !.attr_current_temperature = None], "none", FALSE, TRUE, {})
    ELSE IF p.mk # "object" THEN Raised(e, "AttributeError")
    ELSE IF p.t.k \in {"absent", "null"}
    THEN Result([e EXCEPT !.attr_current_temperature = None], "none", FALSE, TRUE, {})
    ELSE LET f == float(p.t)
         IN  IF f.exc # "none" THEN Raised(e, f.exc)
             ELSE Result([e EXCEPT !.attr_current_temperature = f.v],
                         "none", FALSE, TRUE, {})

current_temp_received(e, p) ==
    IF p.k = "badjson" THEN Raised(e, "JSONDecodeError")
    ELSE IF p.k # "object" THEN Raised(e, "AttributeError")
    ELSE IF p.key # e.model THEN Result(e, "none", FALSE, FALSE, {})
    ELSE IF p.mk # "object" THEN Raised(e, "AttributeError")
    ELSE IF p.t.k \in {"absent", "null"} THEN Result(e, "none", FALSE, FALSE, {})
    ELSE LET f == float(p.t)
         IN  IF f.exc # "none" THEN Raised(e, f.exc)
             ELSE Result([e EXCEPT !.attr_current_temperature = f.v],
                         "none", FALSE, TRUE, {})

\* state_received.  An HVACSETTINGS payload p: p.k is the JSON kind and p.o
\* the object, a function from the keys present to their values.
SetTemp(e, o) ==
    IF "Temp" \in DOMAIN o
    THEN LET f == float(o["Temp"])
         IN  [e |-> IF f.exc = "none" THEN [e EXCEPT !.attr_target_temperature = f.v] ELSE e,
              exc |-> f.exc]
    ELSE [e |-> e, exc |-> "none"]

\* A handler that ignores a mode code it does not know.
SetHAMode_keep_unknown(e, o) ==
    IF "HAMode" \in DOMAIN o
    THEN IF Hashable(o["HAMode"])
         THEN IF o["HAMode"].k = "str" /\ o["HAMode"].s \in DOMAIN HVAC_MODE_MAP
              THEN [e |-> [e EXCEPT !.attr_hvac_mode = HVAC_MODE_MAP_get(o["HAMode"]),
                                    !.attr_hvac_action = ACTION_MAP_get(o["HAMode"])],
                    exc |-> "none"]
              ELSE [e |-> e, exc |-> "none"]
         ELSE [e |-> e, exc |-> "TypeError"]
    ELSE [e |-> e, exc |-> "none"]

SetHAMode(e, o) ==
    IF "HAMode" \in DOMAIN o
    THEN IF Hashable(o["HAMode"])
         THEN [e |-> [e EXCEPT !.attr_hvac_mode = HVAC_MODE_MAP_get(o["HAMode"]),
                               !.attr_hvac_action = ACTION_MAP_get(o["HAMode"])],
               exc |-> "none"]
         ELSE [e |-> e, exc |-> "TypeError"]
    ELSE [e |-> e, exc |-> "none"]

\* A handler that falls back to "auto" for a fan or swing key the payload
\* does not carry.
SetFanSwing_reset_absent(e, o) ==
    [e EXCEPT !.attr_fan_mode = IF "FanSpeed" \in DOMAIN o THEN o["FanSpeed"] ELSE Str("auto"),
              !.attr_swing_mode = IF "SwingV" \in DOMAIN o THEN o["SwingV"] ELSE Str("auto"),
              !.swing_h_mode = IF "SwingH" \in DOMAIN o THEN o["SwingH"] ELSE Str("auto")]

SetFanSwing(e, o) ==
    [e EXCEPT !.attr_fan_mode = IF "FanSpeed" \in DOMAIN o THEN o["FanSpeed"] ELSE @,
              !.attr_swing_mode = IF "SwingV" \in DOMAIN o THEN o["SwingV"] ELSE @,
              !.swing_h_mode = IF "SwingH" \in DOMAIN o THEN o["SwingH"] ELSE @]

state_received(e, p) ==
    IF p.k = "badjson" THEN Raised(e, "JSONDecodeError")
    ELSE IF p.k = "scalar" THEN Raised(e, "TypeError")
    ELSE LET o == IF p.k = "object" THEN p.o ELSE << >>
             r1 == SetTemp(e, o)
             r2 == SetHAMode(r1.e, o)
         IN  IF r1.exc # "none" THEN Raised(r1.e, r1.exc)
             ELSE IF r2.exc # "none" THEN Raised(r2.e, r2.exc)
             ELSE Result(SetFanSwing(r2.e, o), "none", FALSE, TRUE, {})

\* info_received.  A STATUS1 payload p: p.k the JSON kind, p.net the kind of
\* the value under StatusNET ("absent" when missing), p.netmac the Mac inside
\* it and p.mac the top-level Mac (AbsentMac when missing).
ExtractMac(p) ==
    IF p.net = "object" /\ p.netmac.k # "absent" THEN p.netmac
    ELSE IF p.mac.k # "absent" THEN p.mac
    ELSE NoMac

\* A handler that links whenever the message carries a MAC, known or not.
info_received_relink(e, p) ==
    IF p.k = "badjson" THEN Raised(e, "JSONDecodeError")
    ELSE IF p.k = "scalar" THEN Raised(e, "TypeError")
    ELSE IF p.k = "array" THEN Result(e, "none", FALSE, FALSE, {})
    ELSE IF p.net = "scalar" THEN Raised(e, "TypeError")
    ELSE LET mac == ExtractMac(p)
             e1 == [e EXCEPT !.mac_address = mac]
             e2 == [e1 EXCEPT !.attr_device_info = MacStr(MacClean(mac.c))]
             d == publish_mqtt_discovery(e2)
         IN  IF ~ TruthyMac(mac)
             THEN Result(e, "none", FALSE, FALSE, {})
             ELSE IF mac.k # "str" THEN Raised(e1, "AttributeError")
             ELSE Result(e2, d.exc, FALSE, TRUE, d.sched)

\* A handler that links whenever the message carries a MAC other than the
\* stored one.
info_received_newer_wins(e, p) ==
    IF p.k = "badjson" THEN Raised(e, "JSONDecodeError")
    ELSE IF p.k = "scalar" THEN Raised(e, "TypeError")
    ELSE IF p.k = "array" THEN Result(e, "none", FALSE, FALSE, {})
    ELSE IF p.net = "scalar" THEN Raised(e, "TypeError")
    ELSE LET mac == ExtractMac(p)
             e1 == [e EXCEPT !.mac_address = mac]
             e2 == [e1 EXCEPT !.attr_device_info = MacStr(MacClean(mac.c))]
             d == publish_mqtt_discovery(e2)
         IN  IF ~ (TruthyMac(mac) /\ e.mac_address # mac)
             THEN Result(e, "none", FALSE, FALSE, {})
             ELSE IF mac.k # "str" THEN Raised(e1, "AttributeError")
             ELSE Result(e2, d.exc, FALSE, TRUE, d.sched)

info_received(e, p) ==
    IF p.k = "badjson" THEN Raised(e, "JSONDecodeError")
    ELSE IF p.k = "scalar" THEN Raised(e, "TypeError")
    ELSE IF p.k = "array" THEN Result(e, "none", FALSE, FALSE, {})
    ELSE IF p.net = "scalar" THEN Raised(e, "TypeError")
    ELSE LET mac == ExtractMac(p)
             e1 == [e EXCEPT !.mac_address = mac]
             e2 == [e1 EXCEPT !.attr_device_info = MacStr(MacClean(mac.c))]
             d == publish_mqtt_discovery(e2)
         IN  IF ~ (TruthyMac(mac) /\ ~ TruthyMac(e.mac_address))
             THEN Result(e, "none", FALSE, FALSE, {})
             ELSE IF mac.k # "str" THEN Raised(e1, "AttributeError")
             ELSE Result(e2, d.exc, FALSE, TRUE, d.sched)


\* _set_mac_address: the MAC is stored before mac.replace is called, which
\* only a string has.
set_mac_address(e, mac) ==
    IF e.mac_address = mac THEN Result(e, "none", FALSE, FALSE, {})
    ELSE IF mac.k # "str"
    THEN Result([e EXCEPT !.mac_address = mac], "AttributeError", FALSE, FALSE, {})
    ELSE LET e1 == [e EXCEPT !.mac_address = mac,
                             !.attr_device_info = MacStr(MacClean(mac.c))]
             d == publish_mqtt_discovery(e1)
         IN  Result(e1, d.exc, FALSE, d.exc = "none", d.sched)

\* A setter that republishes the document but leaves the host's state as
\* it was.
set_device_name_silent(e, device_name) ==
    IF e.device_name = device_name THEN Result(e, "none", FALSE, FALSE, {})
    ELSE LET e1 == [e EXCEPT !.device_name = device_name]
             d == IF TruthyMac(e1.mac_address)
                  THEN publish_mqtt_discovery(e1)
                  ELSE [exc |-> "none", sched |-> {}]
         IN  Result(e1, d.exc, FALSE, FALSE, d.sched)

\* _set_device_name
set_device_name(e, device_name) ==
    IF e.device_name = device_name THEN Result(e, "none", FALSE, FALSE, {})
    ELSE LET e1 == [e EXCEPT !.device_name = device_name]
             d == IF TruthyMac(e1.mac_address)
                  THEN publish_mqtt_discovery(e1)
                  ELSE [exc |-> "none", sched |-> {}]
         IN  Result(e1, d.exc, FALSE, d.exc = "none", d.sched)

\* The restore part of async_added_to_hass (discovery variant).  A stored
\* state ls: ls.k = "none" when there is none, else its state and attributes.
restore_state(e, ls) ==
    IF ls.k = "none" THEN e
    ELSE [e EXCEPT
            !.attr_hvac_mode = IF ls.state \in {HVAC_MODE_MAP[c] : c \in DOMAIN HVAC_MODE_MAP}
                               THEN ls.state ELSE @,
            !.attr_target_temperature = IF Truthy(ls.temperature)
                                        THEN float(ls.temperature).v ELSE @,
            !.attr_fan_mode = IF Truthy(ls.fan_mode) THEN ls.fan_mode ELSE @,
            !.attr_swing_mode = IF Truthy(ls.swing_mode) THEN ls.swing_mode ELSE @,
            !.swing_h_mode = IF Truthy(ls.swing_horizontal) THEN ls.swing_horizontal ELSE @]

(***************************************************************************)
(* Command handlers: validation and the publish they make.  int() drops    *)
(* the fraction toward zero.                                               *)
(***************************************************************************)
\* A conversion that rounds to the nearest integer.
int_rounding(n) == IF n >= 0 THEN (n + 5) \div 10 ELSE -((5 - n) \div 10)

int(n) == IF n >= 0 THEN n \div 10 ELSE -((-n) \div 10)

\* The publish a command makes, or NoPublish when its input is rejected.
set_temperature_publish(e, temperature) ==
    IF temperature.k # "null"
    THEN Publish(topic_cmd_temp(e.base_topic), Text(ToString(int(temperature.n))), 1, FALSE)
    ELSE NoPublish

\* A mode command that publishes the name of the mode instead of its wire
\* code.
set_hvac_mode_publish_mode_name(e, hvac_mode) ==
    IF hvac_mode.s \in DOMAIN HVAC_MODE_REVERSE_MAP
    THEN Publish(topic_cmd_mode(e.base_topic), Text(hvac_mode.s), 1, FALSE)
    ELSE NoPublish

set_hvac_mode_publish(e, hvac_mode) ==
    IF hvac_mode.s \in DOMAIN HVAC_MODE_REVERSE_MAP
    THEN Publish(topic_cmd_mode(e.base_topic), Text(HVAC_MODE_REVERSE_MAP[hvac_mode.s]), 1, FALSE)
    ELSE NoPublish

\* A fan command without the membership test.
set_fan_mode_publish_unchecked(e, fan_mode) ==
    Publish(topic_cmd_fan(e.base_topic), Text(fan_mode.s), 1, FALSE)

set_fan_mode_publish(e, fan_mode) ==
    IF fan_mode.s \in FAN_MODES
    THEN Publish(topic_cmd_fan(e.base_topic), Text(fan_mode.s), 1, FALSE)
    ELSE NoPublish

\* A swing command that goes to the horizontal vane's topic.
set_swing_mode_publish_horizontal(e, swing_mode) ==
    IF swing_mode.s \in SWING_V_MODES
    THEN Publish(topic_cmd_swing_h(e.base_topic), Text(swing_mode.s), 1, FALSE)
    ELSE NoPublish

set_swing_mode_publish(e, swing_mode) ==
    IF swing_mode.s \in SWING_V_MODES
    THEN Publish(topic_cmd_swing_v(e.base_topic), Text(swing_mode.s), 1, FALSE)
    ELSE NoPublish

\* The optimistic update the discovery variant makes after its publish.
optimistic_update(e, c) ==
    CASE c.op = "set_temperature" -> [e EXCEPT !.attr_target_temperature = c.arg]
      [] c.op = "set_hvac_mode" -> [e EXCEPT !.attr_hvac_mode = c.arg.s]
      [] c.op = "set_fan_mode" -> [e EXCEPT !.attr_fan_mode = c.arg]
      [] c.op = "set_swing_mode" -> [e EXCEPT !.attr_swing_mode = c.arg]


(***************************************************************************)
(* Inputs.                                                                 *)
(***************************************************************************)
Dev1 == <<"h", "p", "1">>
Dev2 == <<"h", "p", "2">>

DeviceIds == {Dev1, Dev2}

Mac1 == MacStr(<<"A", "A", ":", "B", "B", ":", "C", "C", ":", "D", "D", ":", "E", "E", ":", "F", "F">>)
Mac2 == MacStr(<<"0", "2", ":", "c", "f">>)

Name1 == MacStr(<<"S", "a", "l", "o", "n">>)

LWTPayloads == {"Online", "Offline"}

BadJson == [k |-> "badjson", o |-> << >>]
ScalarJson == [k |-> "scalar", o |-> << >>]
ArrayJson == [k |-> "array", o |-> << >>]

Object(o) == [k |-> "object", o |-> o]

SettingsKeys == {"Temp", "HAMode", "FanSpeed", "SwingV", "SwingH"}

SettingsValues(key) ==
    CASE key = "Temp" -> {Num(210), None, Str("abc")}
      [] key = "HAMode" -> {Str("cool"), Str("bogus"), ListV}
      [] key = "FanSpeed" -> {Str("quiet")}
      [] key = "SwingV" -> {Str("up")}
      [] key = "SwingH" -> {Str("left")}

\* Objects with at most MaxPayloadKeys keys, every key present at once, and
\* a valid Temp followed by an unhashable HAMode.
SettingsObjects ==
    UNION {{o \in [K -> UNION {SettingsValues(key) : key \in K}] :
               \A key \in K : o[key] \in SettingsValues(key)} :
           K \in {S \in SUBSET SettingsKeys : Cardinality(S) <= MaxPayloadKeys}}
    \cup {[key \in SettingsKeys |->
              CASE key = "Temp" -> Num(210)
                [] key = "HAMode" -> Str("cool")
                [] key = "FanSpeed" -> Str("quiet")
                [] key = "SwingV" -> Str("up")
                [] key = "SwingH" -> Str("left")]}
    \cup {[key \in {"Temp", "HAMode"} |-> IF key = "Temp" THEN Num(210) ELSE ListV]}

SettingsPayloads == {BadJson, ScalarJson, ArrayJson} \cup {Object(o) : o \in SettingsObjects}

SensorMsgOf(k, key, mk, t) == [k |-> k, key |-> key, mk |-> mk, t |-> t]

SensorPayloads ==
    {SensorMsgOf("badjson", "", "object", Absent),
     SensorMsgOf("scalar", "", "object", Absent),
     SensorMsgOf("object", "Other", "object", Num(190)),
     SensorMsgOf("object", "MiElHVAC", "scalar", Absent),
     SensorMsgOf("object", "MiElHVAC", "object", Absent),
     SensorMsgOf("object", "MiElHVAC", "object", None),
     SensorMsgOf("object", "MiElHVAC", "object", Str("abc")),
     SensorMsgOf("object", "MiElHVAC", "object", ListV),
     SensorMsgOf("object", "MiElHVAC", "object", Num(205)),
     SensorMsgOf("object", "MiElHVAC2", "object", Num(190))}

InfoMsgOf(k, net, netmac, mac) == [k |-> k, net |-> net, netmac |-> netmac, mac |-> mac]

InfoPayloads ==
    {InfoMsgOf("badjson", "absent", AbsentMac, AbsentMac),
     InfoMsgOf("scalar", "absent", AbsentMac, AbsentMac),
     InfoMsgOf("object", "scalar", AbsentMac, Mac1),
     InfoMsgOf("object", "absent", AbsentMac, AbsentMac),
     InfoMsgOf("object", "absent", AbsentMac, NumMac),
     InfoMsgOf("object", "absent", AbsentMac, ZeroMac),
     InfoMsgOf("object", "object", Mac1, AbsentMac)}

NoState == [k |-> "none", state |-> "", temperature |-> None, fan_mode |-> None,
            swing_mode |-> None, swing_horizontal |-> None]

StoredState(state, temperature, fan_mode, swing_mode, swing_horizontal) ==
    [k |-> "state", state |-> state, temperature |-> temperature, fan_mode |-> fan_mode,
     swing_mode |-> swing_mode, swing_horizontal |-> swing_horizontal]

StoredStates ==
    {NoState,
     StoredState("unavailable", None, None, None, None),
     StoredState("cool", Num(210), Str("quiet"), None, None)}

TemperatureArgs == {None, Num(219)}

FanModeArgs == {Str("quiet"), Str("turbo")}

(***************************************************************************)
(* State of the host as far as the code drives it.                         *)
(***************************************************************************)

Last(op, arg, exc, caught, notified, pubs) ==
    [op |-> op, arg |-> arg, exc |-> exc, caught |-> caught, notified |-> notified,
     pubs |-> pubs]

StaticSubs == <<"availability", "sensor", "state">>

DiscoverySubsOrder == <<"availability", "sensor", "state", "info">>

DiscoverySubs == {"availability", "sensor", "state", "info"}

NoSignals == [d \in DeviceIds |-> 0]

\* Messages in flight to the entity, one per topic: the topics still to be
\* delivered, the payload on each, and the entity when they were sent.
NoBatch == [pending |-> {}, msgs |-> << >>, start |-> NewEntity(<< >>, NoMac, NoMac)]

\* Device ids a user may type into the setup form of the static variant.
DevUpper == <<"H", "P", "1">>

FlowDeviceIds == {Dev1, Dev2, <<"h", "p", "3">>, DevUpper, << >>}

\* The config entries of the static variant: how many entries each device
\* id (the unique id of its entry) has.
ConfiguredBy(D) == [d \in FlowDeviceIds |-> IF d \in D THEN 1 ELSE 0]

StaticEntries ==
    {EntryData(Dev1, AbsentMac, Absent),
     EntryData(Dev1, MacStr(<<"t", "h">>), Str(DEFAULT_MODEL)),
     EntryData(Dev1, MacStr(Dev1), Str("MiElHVAC2"))}

\* The static variant: the platform's async_setup_entry has constructed the
\* entity from the config entry.
InitStatic ==
    /\ variant = "static"
    /\ pc = "constructed"
    /\ ent \in {NewStaticEntity(data) : data \in StaticEntries}
    /\ subs = {}
    /\ tasks = EmptyBag
    /\ cmd = EmptyBag
    /\ retained = << >>
    /\ last = Last("init", None, "none", FALSE, FALSE, << >>)
    /\ entry = "static"
    /\ discovered = {}
    /\ created = NoSignals
    /\ signals = NoSignals
    /\ configured = ConfiguredBy({Dev1})
    /\ batch = NoBatch
    /\ reply = "idle"
    /\ restored = FALSE

\* The discovery variant after the listener has seen Dev1 and
\* async_discover_hvac has constructed its entity.
InitDiscovered ==
    /\ variant = "discovery"
    /\ pc = "constructed"
    /\ ent = NewEntity(Dev1, NoMac, NoMac)
    /\ subs = {}
    /\ tasks = SetToBag(InitTasks(NewEntity(Dev1, NoMac, NoMac)))
    /\ cmd = EmptyBag
    /\ retained = << >>
    /\ last = Last("init", None, "none", FALSE, FALSE, << >>)
    /\ entry = "loaded"
    /\ discovered = {Dev1}
    /\ created = [NoSignals EXCEPT ![Dev1] = 1]
    /\ signals = [NoSignals EXCEPT ![Dev1] = 1]
    /\ configured = ConfiguredBy({})
    /\ batch = NoBatch
    /\ reply = "idle"
    /\ restored = FALSE

(***************************************************************************)
(* Entity lifecycle.                                                       *)
(***************************************************************************)
\* async_added_to_hass, static variant: three subscriptions, an await after
\* each.
AddStatic ==
    /\ variant = "static"
    /\ pc = "constructed"
    /\ LET i == Cardinality(subs) + 1
       IN  /\ subs' = subs \cup {StaticSubs[i]}
           /\ pc' = IF i = Len(StaticSubs) THEN "added" ELSE "constructed"
    /\ last' = Last("async_added_to_hass", None, "none", FALSE, FALSE, << >>)
    /\ UNCHANGED <<restored, variant, hvac_mode_map, ent, tasks, cmd, retained, entry, discovered, created, signals, configured, batch, reply>>

\* The first k subscriptions of _subscribe_topics, in the order of its
\* dictionary.
Subscribed(k) == {DiscoverySubsOrder[i] : i \in 1..k}

\* async_added_to_hass, discovery variant: restore, then _subscribe_topics
\* up to the host's next suspension.  The host's awaited subscribe suspends
\* before it has subscribed anything, after its first topic, or not at all.
AddDiscovery(LS) ==
    \E ls \in LS, k \in {0, 1, Len(DiscoverySubsOrder)} :
        /\ variant = "discovery"
        /\ pc = "constructed"
        /\ ~ restored
        /\ ent' = restore_state(ent, ls)
        /\ restored' = TRUE
        /\ subs' = Subscribed(k)
        /\ pc' = IF k = Len(DiscoverySubsOrder) THEN "added" ELSE "constructed"
        /\ last' = Last("async_added_to_hass", ls, "none", FALSE, FALSE, << >>)
        /\ UNCHANGED <<variant, hvac_mode_map, tasks, cmd, retained, entry, discovered, created, signals, configured, batch, reply>>

\* The awaited subscribe of _subscribe_topics resumes: the next topic on a
\* host that subscribes topic by topic, all of them on a host that suspended
\* before subscribing.
SubscribeTopics ==
    \E k \in {Cardinality(subs) + 1} \cup
              (IF subs = {} THEN {Len(DiscoverySubsOrder)} ELSE {}) :
        /\ variant = "discovery"
        /\ pc = "constructed"
        /\ restored
        /\ subs' = Subscribed(k)
        /\ pc' = IF k = Len(DiscoverySubsOrder) THEN "added" ELSE "constructed"
        /\ last' = Last("_subscribe_topics", None, "none", FALSE, FALSE, << >>)
        /\ UNCHANGED <<restored, variant, hvac_mode_map, ent, tasks, cmd, retained, entry, discovered, created, signals,
                       configured, batch, reply>>

\* Removal of the entity.  The discovery variant's async_will_remove_from_hass
\* unsubscribes, then awaits the clear publish; the static variant overrides
\* nothing and dropped the unsubscribe callables async_subscribe returned.
\* A removal that clears the topic named by the MAC as stored, colons and
\* case kept.
will_remove_from_hass_raw_mac(e) ==
    IF ~ TruthyMac(e.mac_address) THEN [exc |-> "none", sched |-> {}]
    ELSE IF e.mac_address.k # "str" THEN [exc |-> "AttributeError", sched |-> {}]
    ELSE [exc |-> "none",
          sched |-> {Task("clear",
                          Publish(discovery_topic(e.mac_address.c), Text(""), 1, TRUE))}]

will_remove_from_hass(e) ==
    IF ~ TruthyMac(e.mac_address) THEN [exc |-> "none", sched |-> {}]
    ELSE IF e.mac_address.k # "str" THEN [exc |-> "AttributeError", sched |-> {}]
    ELSE [exc |-> "none",
          sched |-> {Task("clear",
                          Publish(discovery_topic(MacClean(e.mac_address.c)),
                                  Text(""), 1, TRUE))}]

Remove ==
    /\ pc = "added"
    /\ LET r == will_remove_from_hass(ent)
       IN  IF variant = "discovery"
           THEN /\ subs' = {}
                /\ tasks' = tasks (+) SetToBag(r.sched)
                /\ pc' = IF r.sched = {} THEN "removed" ELSE "clearing"
                /\ last' = Last("async_will_remove_from_hass", None, r.exc, FALSE, FALSE, << >>)
           ELSE /\ pc' = "removed"
                /\ last' = Last("remove", None, "none", FALSE, FALSE, << >>)
                /\ UNCHANGED <<restored, subs, tasks>>
    /\ UNCHANGED <<restored, variant, hvac_mode_map, ent, cmd, retained, entry, discovered, created, signals, configured, batch, reply>>

(***************************************************************************)
(* Inbound messages on the entity's subscriptions.  A handler runs only    *)
(* while its subscription is active.                                       *)
(***************************************************************************)
Handle(op, arg, r) ==
    /\ ent' = r.e
    /\ tasks' = tasks (+) SetToBag(r.sched)
    /\ last' = Last(op, arg, r.exc, r.caught, r.notified, << >>)
    /\ UNCHANGED <<restored, variant, hvac_mode_map, pc, subs, cmd, retained, entry, discovered, created, signals, configured, batch, reply>>

AvailabilityMsg(P) ==
    \E payload \in P :
        /\ "availability" \in subs
        /\ Handle("availability_received", Text(payload), availability_received(ent, payload))

SensorMsg(P) ==
    \E p \in P :
        /\ "sensor" \in subs
        /\ Handle("current_temp_received", p, current_temp_received(ent, p))

StateMsg(P) ==
    \E p \in P :
        /\ "state" \in subs
        /\ Handle("state_received", p, state_received(ent, p))

InfoMsg(P) ==
    \E p \in P :
        /\ "info" \in subs
        /\ Handle("info_received", p, info_received(ent, p))

(***************************************************************************)
(* Commands.  The handler validates and publishes; the discovery variant   *)
(* resumes after the awaited publish with its optimistic update.           *)
(***************************************************************************)
\* A command that never resumes with a local update, whatever the variant.
Command_no_resume(op, arg, pub) ==
    /\ pc = "added"
    /\ last' = Last(op, arg, "none", FALSE, FALSE,
                    IF pub = NoPublish THEN << >> ELSE <<pub>>)
    /\ cmd' = cmd
    /\ UNCHANGED <<restored, variant, hvac_mode_map, pc, ent, subs, tasks, retained, entry, discovered, created, signals, configured, batch, reply>>

\* Nothing serialises the commands of an entity: a command runs while
\* earlier ones are suspended in their awaited publish.
Command(op, arg, pub) ==
    /\ pc = "added"
    /\ (variant = "discovery" /\ pub # NoPublish) => BagCardinality(cmd) < MaxPending
    /\ last' = Last(op, arg, "none", FALSE, FALSE,
                    IF pub = NoPublish THEN << >> ELSE <<pub>>)
    /\ cmd' = IF variant = "discovery" /\ pub # NoPublish
              THEN cmd (+) SetToBag({[op |-> op, arg |-> arg]})
              ELSE cmd
    /\ UNCHANGED <<restored, variant, hvac_mode_map, pc, ent, subs, tasks, retained, entry, discovered, created, signals, configured, batch, reply>>

SetTemperature(A) ==
    \E temperature \in A :
        Command("set_temperature", temperature, set_temperature_publish(ent, temperature))

SetHvacMode(A) ==
    \E hvac_mode \in A :
        Command("set_hvac_mode", hvac_mode, set_hvac_mode_publish(ent, hvac_mode))

SetFanMode(A) ==
    \E fan_mode \in A :
        Command("set_fan_mode", fan_mode, set_fan_mode_publish(ent, fan_mode))

SetSwingMode(A) ==
    \E swing_mode \in A :
        Command("set_swing_mode", swing_mode, set_swing_mode_publish(ent, swing_mode))

\* A suspended command resumes, in whatever order the host completes the
\* publishes.
CommandResume ==
    \E c \in BagToSet(cmd) :
        /\ ent' = optimistic_update(ent, c)
        /\ cmd' = cmd (-) SetToBag({c})
        /\ last' = Last("optimistic_update", c.arg, "none", FALSE, TRUE, << >>)
        /\ UNCHANGED <<restored, variant, hvac_mode_map, pc, subs, tasks, retained, entry, discovered, created, signals, configured, batch, reply>>

(***************************************************************************)
(* Tasks of the event loop: the status request, the delayed discovery      *)
(* publish, the discovery publishes and the clear publish of removal.      *)
(***************************************************************************)
RunTask ==
    \E t \in BagToSet(tasks) :
        LET d == IF t.t = "delayed" THEN publish_mqtt_discovery(ent)
                 ELSE [exc |-> "none", sched |-> {}]
        IN  /\ tasks' = (tasks (-) SetToBag({t})) (+) SetToBag(d.sched)
            /\ retained' = IF t.pub.retain THEN (t.pub.topic :> t.pub.payload) @@ retained
                           ELSE retained
            /\ pc' = IF t.t = "clear" THEN "removed" ELSE pc
            /\ last' = Last(t.t, None, d.exc, FALSE, FALSE,
                            IF t.t = "delayed" THEN << >> ELSE <<t.pub>>)
            /\ UNCHANGED <<restored, variant, hvac_mode_map, ent, subs, cmd, entry, discovered, created, signals, configured, batch, reply>>

(***************************************************************************)
(* The entity of either variant, with its handlers and commands.           *)
(***************************************************************************)
Init == (InitStatic \/ InitDiscovered) /\ hvac_mode_map = NamedTable

\* The entity async_discover_hvac constructed, const.py holding the named table.
InitNamed == InitDiscovered /\ hvac_mode_map = NamedTable

\* The messages and commands are one of each kind that matters to a handler,
\* so that every handler and every command interleaves with every other.
Next ==
    \/ AddStatic
    \/ AddDiscovery(StoredStates)
    \/ SubscribeTopics
    \/ AvailabilityMsg(LWTPayloads)
    \/ SensorMsg({SensorMsgOf("badjson", "", "object", Absent),
                 SensorMsgOf("object", "MiElHVAC", "object", ListV),
                 SensorMsgOf("object", "MiElHVAC", "object", Num(205))})
    \/ StateMsg({BadJson,
                Object([key \in {"Temp"} |-> Num(210)]),
                Object([key \in {"HAMode"} |-> Str("cool")])})
    \/ InfoMsg({InfoMsgOf("object", "object", Mac1, AbsentMac),
               InfoMsgOf("object", "absent", AbsentMac, ZeroMac)})
    \/ SetTemperature({Num(219)})
    \/ SetHvacMode({Str("heat")})
    \/ SetFanMode({Str("quiet")})
    \/ SetSwingMode({Str("up")})
    \/ CommandResume
    \/ RunTask
    \/ Remove

Spec == Init /\ [][Next]_vars

(***************************************************************************)
(* The entity of either variant under every payload of its four topics,    *)
(* without commands.                                                       *)
(***************************************************************************)
NextMessages ==
    \/ AddStatic
    \/ AddDiscovery(StoredStates)
    \/ SubscribeTopics
    \/ AvailabilityMsg(LWTPayloads)
    \/ SensorMsg(SensorPayloads)
    \/ StateMsg(SettingsPayloads)
    \/ InfoMsg(InfoPayloads)
    \/ RunTask
    \/ Remove

SpecMessages == Init /\ [][NextMessages]_vars

(***************************************************************************)
(* The entity of either variant under every payload of its three tele      *)
(* topics (LWT, SENSOR, HVACSETTINGS), without STATUS1 and without         *)
(* commands.                                                               *)
(***************************************************************************)
NextTelemetry ==
    \/ AddStatic
    \/ AddDiscovery(StoredStates)
    \/ SubscribeTopics
    \/ AvailabilityMsg(LWTPayloads)
    \/ SensorMsg(SensorPayloads)
    \/ StateMsg(SettingsPayloads)
    \/ RunTask
    \/ Remove

SpecTelemetry == Init /\ [][NextTelemetry]_vars

(***************************************************************************)
(* The entity of either variant under every command argument, valid and    *)
(* invalid, with the device's echo of the temperature and fan commands.    *)
(***************************************************************************)
NextCommand ==
    \/ AddStatic
    \/ AddDiscovery({NoState})
    \/ SubscribeTopics
    \/ StateMsg({Object([key \in {"Temp"} |-> Num(210)]),
                Object([key \in {"FanSpeed"} |-> Str("quiet")])})
    \/ SetTemperature(TemperatureArgs)
    \/ SetHvacMode({Str("cool"), Str("heat_cool")})
    \/ SetFanMode(FanModeArgs)
    \/ SetSwingMode({Str("up"), Str("sideways")})
    \/ CommandResume
    \/ RunTask
    \/ Remove

SpecCommand == Init /\ [][NextCommand]_vars

(***************************************************************************)
(* The discovery variant's integration entry: the SENSOR listener of       *)
(* __init__.py and the platform's async_discover_hvac.  Dev1's entity is   *)
(* modelled in full; of any other device only the number of entities       *)
(* constructed is kept.                                                    *)
(***************************************************************************)
\* re.match(r"tele/([^/]+)/SENSOR", msg.topic)
TopicMatches(topic) == topic.pfx = "tele" /\ topic.leaf = "SENSOR" /\ topic.mid # << >>

\* A listener that takes any MiElHVAC object for a device, with or without
\* a Temperature.
sensor_message_received_any_mielhvac(topic, p) ==
    IF ~ TopicMatches(topic) THEN [qualifies |-> FALSE, caught |-> FALSE, exc |-> "none"]
    ELSE IF p.k = "badjson" THEN [qualifies |-> FALSE, caught |-> FALSE, exc |-> "none"]
    ELSE IF p.k = "scalar" THEN [qualifies |-> FALSE, caught |-> TRUE, exc |-> "none"]
    ELSE IF p.k # "object" \/ p.key # "MiElHVAC"
    THEN [qualifies |-> FALSE, caught |-> FALSE, exc |-> "none"]
    ELSE IF p.mk # "object" THEN [qualifies |-> FALSE, caught |-> TRUE, exc |-> "none"]
    ELSE [qualifies |-> TRUE, caught |-> FALSE, exc |-> "none"]

\* A listener whose only handler is the one around json.loads.
sensor_message_received_uncaught(topic, p) ==
    IF ~ TopicMatches(topic) THEN [qualifies |-> FALSE, caught |-> FALSE, exc |-> "none"]
    ELSE IF p.k = "badjson" THEN [qualifies |-> FALSE, caught |-> FALSE, exc |-> "none"]
    ELSE IF p.k = "scalar" THEN [qualifies |-> FALSE, caught |-> FALSE, exc |-> "TypeError"]
    ELSE IF p.k # "object" \/ p.key # "MiElHVAC"
    THEN [qualifies |-> FALSE, caught |-> FALSE, exc |-> "none"]
    ELSE IF p.mk # "object" THEN [qualifies |-> FALSE, caught |-> FALSE, exc |-> "TypeError"]
    ELSE [qualifies |-> p.t.k # "absent", caught |-> FALSE, exc |-> "none"]

\* sensor_message_received up to the seen-set check: whether the message
\* qualifies, whether the outer "except Exception" caught an exception, and
\* the exception that left the handler.  A payload that is no object, or a
\* MiElHVAC value that is none, raises TypeError or AttributeError inside.
sensor_message_received(topic, p) ==
    IF ~ TopicMatches(topic) THEN [qualifies |-> FALSE, caught |-> FALSE, exc |-> "none"]
    ELSE IF p.k = "badjson" THEN [qualifies |-> FALSE, caught |-> FALSE, exc |-> "none"]
    ELSE IF p.k = "scalar" THEN [qualifies |-> FALSE, caught |-> TRUE, exc |-> "none"]
    ELSE IF p.k # "object" \/ p.key # "MiElHVAC"
    THEN [qualifies |-> FALSE, caught |-> FALSE, exc |-> "none"]
    ELSE IF p.mk # "object" THEN [qualifies |-> FALSE, caught |-> TRUE, exc |-> "none"]
    ELSE [qualifies |-> p.t.k # "absent", caught |-> FALSE, exc |-> "none"]

\* async_discover_hvac(device_id, mac, device_name) on the platform's
\* created_entities and on Dev1's entity.  The branch for an existing
\* entity calls the two setters one after the other; each creates its own
\* publish task, so the tasks of the two calls are a bag.
UpdateEntity(e, mac, device_name) ==
    LET r1 == IF TruthyMac(mac) /\ e.mac_address # mac
              THEN set_mac_address(e, mac)
              ELSE Result(e, "none", FALSE, FALSE, {})
        r2 == IF TruthyMac(device_name) /\ r1.e.device_name # device_name
              THEN set_device_name(r1.e, device_name)
              ELSE Result(r1.e, "none", FALSE, FALSE, {})
    IN  IF r1.exc # "none"
        THEN Result(r1.e, r1.exc, FALSE, r1.notified, SetToBag(r1.sched))
        ELSE Result(r2.e, r2.exc, FALSE, r1.notified \/ r2.notified,
                    SetToBag(r1.sched) (+) SetToBag(r2.sched))

async_discover_hvac(device_id, mac, device_name) ==
    IF created[device_id] > 0
    THEN LET r == IF device_id = Dev1 THEN UpdateEntity(ent, mac, device_name)
                  ELSE Result(ent, "none", FALSE, FALSE, EmptyBag)
         IN  [created |-> created, pc |-> pc, ent |-> r.e, tasks |-> tasks (+) r.sched,
              exc |-> r.exc, notified |-> r.notified]
    ELSE LET e == NewEntity(device_id, mac, device_name)
         IN  [created |-> [created EXCEPT ![device_id] = @ + 1],
              pc |-> IF device_id = Dev1 THEN "constructed" ELSE pc,
              ent |-> IF device_id = Dev1 THEN e ELSE ent,
              tasks |-> IF device_id = Dev1 THEN tasks (+) SetToBag(InitTasks(e)) ELSE tasks,
              exc |-> "none", notified |-> FALSE]

\* The seen-set check of sensor_message_received.
NewlySeen(device_id) == device_id \notin discovered

\* async_setup_entry of __init__.py: subscribe the listener, then forward to
\* the climate platform, whose async_setup_entry connects async_discover_hvac
\* to the signal.
Setup_Subscribe ==
    /\ entry = "init"
    /\ entry' = "listening"
    /\ last' = Last("async_setup_entry", None, "none", FALSE, FALSE, << >>)
    /\ UNCHANGED <<restored, variant, hvac_mode_map, pc, ent, subs, tasks, cmd, retained, discovered, created, signals, configured, batch, reply>>

Setup_Forward ==
    /\ entry = "listening"
    /\ entry' = "loaded"
    /\ last' = Last("async_forward_entry_setups", None, "none", FALSE, FALSE, << >>)
    /\ UNCHANGED <<restored, variant, hvac_mode_map, pc, ent, subs, tasks, cmd, retained, discovered, created, signals, configured, batch, reply>>

\* A SENSOR message reaches the listener.  async_dispatcher_send calls the
\* receivers connected at that moment; with none connected the signal is
\* dropped.
ListenerMsg(T, P) ==
    \E topic \in T, p \in P :
        /\ entry \in {"listening", "loaded"}
        /\ LET r == sensor_message_received(topic, p)
               device_id == topic.mid
               fire == r.qualifies /\ NewlySeen(device_id)
               d == async_discover_hvac(device_id, NoMac, NoMac)
           IN  /\ fire => signals[device_id] < MaxSignals
               /\ discovered' = IF fire THEN discovered \cup {device_id} ELSE discovered
               /\ signals' = IF fire THEN [signals EXCEPT ![device_id] = @ + 1] ELSE signals
               /\ IF fire /\ entry = "loaded"
                  THEN /\ created' = d.created
                       /\ pc' = d.pc
                       /\ ent' = d.ent
                       /\ tasks' = d.tasks
                  ELSE UNCHANGED <<restored, created, pc, ent, tasks>>
               /\ last' = Last("sensor_message_received", [topic |-> topic, payload |-> p],
                               r.exc, r.caught, FALSE, << >>)
        /\ UNCHANGED <<restored, variant, hvac_mode_map, subs, cmd, retained, entry, configured, batch, reply>>

\* The discovery signal reaches async_discover_hvac: sent by the listener
\* with the device id alone, or by another component with a MAC or a name.
\* The receiver is connected by the platform's setup and disconnected by the
\* entry's on_unload callbacks, which the host runs after async_unload_entry
\* has returned: it still receives while the entry is unloading.
DiscoverSignal(D, M, N) ==
    \E device_id \in D, mac \in M, device_name \in N :
        /\ entry \in {"loaded", "unloading"}
        /\ created[device_id] < MaxSignals
        /\ BagCardinality(tasks) < MaxTasks
        /\ LET d == async_discover_hvac(device_id, mac, device_name)
           IN  /\ created' = d.created
               /\ pc' = d.pc
               /\ ent' = d.ent
               /\ tasks' = d.tasks
               /\ last' = Last("async_discover_hvac",
                               [device_id |-> device_id, mac |-> mac, device_name |-> device_name],
                               d.exc, FALSE, d.notified, << >>)
        /\ UNCHANGED <<restored, variant, hvac_mode_map, subs, cmd, retained, entry, discovered, signals, configured, batch, reply>>

\* async_unload_entry: the listener is unsubscribed, the platform unloaded
\* (its entities removed), then the entry's data dropped.
Unload_Unsub ==
    /\ entry = "loaded"
    /\ entry' = "unloading"
    /\ last' = Last("async_unload_entry", None, "none", FALSE, FALSE, << >>)
    /\ UNCHANGED <<restored, variant, hvac_mode_map, pc, ent, subs, tasks, cmd, retained, discovered, created, signals, configured, batch, reply>>

Unload_Done ==
    /\ entry = "unloading"
    /\ pc \in {"none", "removed"}
    /\ entry' = "unloaded"
    /\ discovered' = {}
    /\ last' = Last("async_unload_platforms", None, "none", FALSE, FALSE, << >>)
    /\ UNCHANGED <<restored, variant, hvac_mode_map, pc, ent, subs, tasks, cmd, retained, created, signals, configured, batch, reply>>

ListenerTopics == {topic_sensor(Dev1), topic_sensor(Dev2), topic_sensor(<< >>)}

ListenerPayloads ==
    {SensorMsgOf("badjson", "", "object", Absent),
     SensorMsgOf("scalar", "", "object", Absent),
     SensorMsgOf("array", "", "object", Absent),
     SensorMsgOf("object", "Other", "object", Num(190)),
     SensorMsgOf("object", "MiElHVAC", "scalar", Absent),
     SensorMsgOf("object", "MiElHVAC", "object", Absent),
     SensorMsgOf("object", "MiElHVAC", "object", Num(205))}

LinkInfoPayloads ==
    {InfoMsgOf("badjson", "absent", AbsentMac, AbsentMac),
     InfoMsgOf("object", "absent", AbsentMac, AbsentMac),
     InfoMsgOf("object", "absent", AbsentMac, Mac2),
     InfoMsgOf("object", "absent", AbsentMac, ZeroMac),
     InfoMsgOf("object", "object", AbsentMac, Mac2),
     InfoMsgOf("object", "object", Mac1, Mac2),
     InfoMsgOf("object", "object", Mac1, AbsentMac)}

\* What a discovery signal brings besides the device id.  The MAC: none, as
\* the listener of __init__.py sends it, or a MAC, which may be the one the
\* entity has or another.  The name: none, a name, or the device id.
SignalMacs == {NoMac, Mac1, Mac2}

SignalNames == {NoMac, Name1, MacStr(Dev1)}

\* The discovery variant from the start of async_setup_entry: no listener,
\* no entity.
InitEntry ==
    /\ variant = "discovery"
    /\ hvac_mode_map = NamedTable
    /\ pc = "none"
    /\ ent = NewEntity(Dev1, NoMac, NoMac)
    /\ subs = {}
    /\ tasks = EmptyBag
    /\ cmd = EmptyBag
    /\ retained = << >>
    /\ last = Last("init", None, "none", FALSE, FALSE, << >>)
    /\ entry = "init"
    /\ discovered = {}
    /\ created = NoSignals
    /\ signals = NoSignals
    /\ configured = ConfiguredBy({})
    /\ batch = NoBatch
    /\ reply = "idle"
    /\ restored = FALSE

\* The listener and the creation of entities, from the start of setup.
NextListener ==
    \/ Setup_Subscribe
    \/ Setup_Forward
    \/ ListenerMsg(ListenerTopics, ListenerPayloads)
    \/ AddDiscovery({NoState})
    \/ SubscribeTopics
    \/ Remove
    \/ Unload_Unsub
    \/ Unload_Done

SpecListener == InitEntry /\ [][NextListener]_vars

\* The discovery variant once set up (listener subscribed, platform
\* connected), before any device has been seen.
InitLink ==
    /\ variant = "discovery"
    /\ hvac_mode_map = NamedTable
    /\ pc = "none"
    /\ ent = NewEntity(Dev1, NoMac, NoMac)
    /\ subs = {}
    /\ tasks = EmptyBag
    /\ cmd = EmptyBag
    /\ retained = << >>
    /\ last = Last("init", None, "none", FALSE, FALSE, << >>)
    /\ entry = "loaded"
    /\ discovered = {}
    /\ created = NoSignals
    /\ signals = NoSignals
    /\ configured = ConfiguredBy({})
    /\ batch = NoBatch
    /\ reply = "idle"
    /\ restored = FALSE

\* One device's entity from its creation to its removal: MAC linking, the
\* discovery document and its clearing.  The signal brings any MAC, with or
\* without a name.
NextLink ==
    \/ DiscoverSignal({Dev1}, SignalMacs, {NoMac, Name1})
    \/ AddDiscovery({NoState})
    \/ SubscribeTopics
    \/ InfoMsg(LinkInfoPayloads)
    \/ RunTask
    \/ Remove
    \/ Unload_Unsub
    \/ Unload_Done

SpecLink == InitLink /\ [][NextLink]_vars

(***************************************************************************)
(* Vocabulary of the properties.                                           *)
(***************************************************************************)
HandlerOps == {"availability_received", "current_temp_received", "state_received",
               "info_received"}

CommandOps == {"set_temperature", "set_hvac_mode", "set_fan_mode", "set_swing_mode"}

\* An HVACSETTINGS payload the handler can apply in full: a JSON object whose
\* Temp, if present, is a number or numeric text and whose HAMode, if
\* present, is hashable.
WellFormedSettings(p) ==
    /\ p.k = "object"
    /\ "Temp" \in DOMAIN p.o =>
          \/ p.o["Temp"].k = "num"
          \/ p.o["Temp"].k = "str" /\ p.o["Temp"].s \in NumericStrings
    /\ "HAMode" \in DOMAIN p.o => p.o["HAMode"].k # "list"

\* A SENSOR payload that is not JSON, not an object, or whose value under
\* the entity's model key, or the Temperature in it, cannot be used.
MalformedSensor(e, p) ==
    \/ p.k # "object"
    \/ p.key = e.model /\ p.mk # "object"
    \/ p.key = e.model /\ p.t.k \in {"str", "list"} /\ p.t.s \notin NumericStrings

\* A STATUS1 payload that is not JSON, not an object, or whose StatusNET or
\* Mac has the wrong type.
MalformedInfo(p) ==
    \/ p.k # "object"
    \/ p.net = "scalar"
    \/ ExtractMac(p).k = "num"

MalformedMessage(e, l) ==
    \/ l.op = "state_received" /\ ~ WellFormedSettings(l.arg)
    \/ l.op = "current_temp_received" /\ MalformedSensor(e, l.arg)
    \/ l.op = "info_received" /\ MalformedInfo(l.arg)

\* Some mode code stands behind both the mode and the action.
ModeCodes == {Str(c) : c \in WireCodes} \cup {Str("bogus"), None}

InSync(e) ==
    \E code \in ModeCodes :
        /\ e.attr_hvac_mode = HVAC_MODE_MAP_get(code)
        /\ e.attr_hvac_action = ACTION_MAP_get(code)

(***************************************************************************)
(* C1.  Operating mode and operating action are in sync in every reachable *)
(* state of an entity of either variant: the action is the ACTION_MAP      *)
(* projection of the mode code the current mode corresponds to.            *)
(* (Violated by the discovery variant: restore and the optimistic update   *)
(* of async_set_hvac_mode set the mode and leave the action.)              *)
(***************************************************************************)
C1_ModeActionInSync == InSync(ent)

(***************************************************************************)
(* C2.  A malformed inbound message on SENSOR, HVACSETTINGS or STATUS1 is  *)
(* discarded atomically: no exception reaches the caller, no state field   *)
(* changes and nothing is published.                                       *)
(* (Violated: TypeError and AttributeError are not among the exceptions    *)
(* the handlers catch, and Temp is applied before HAMode is looked up.)    *)
(***************************************************************************)
C2_MalformedDiscarded ==
    [][MalformedMessage(ent, last') =>
          /\ last'.exc = "none"
          /\ ent' = ent
          /\ last'.pubs = << >>
          /\ tasks' = tasks
          /\ retained' = retained]_vars

(***************************************************************************)
(* C3.  A well-formed HVACSETTINGS message updates exactly the fields      *)
(* whose keys are present (Temp, HAMode, FanSpeed, SwingV, SwingH) and     *)
(* leaves every other field unchanged; a payload with only FanSpeed        *)
(* changes only the fan mode.                                              *)
(***************************************************************************)
TenthsOf(v) == IF v.k = "num" THEN v.n ELSE IF v.s = "21" THEN 210 ELSE 220

SettingsApplied(e, o) ==
    [e EXCEPT
        !.attr_target_temperature = IF "Temp" \in DOMAIN o THEN Num(TenthsOf(o["Temp"])) ELSE @,
        !.attr_hvac_mode =
            IF "HAMode" \notin DOMAIN o THEN @
            ELSE IF o["HAMode"].k = "str" /\ o["HAMode"].s \in WireCodes
                 THEN HVAC_MODE_MAP[o["HAMode"].s] ELSE "off",
        !.attr_hvac_action =
            IF "HAMode" \notin DOMAIN o THEN @
            ELSE IF o["HAMode"].k = "str" /\ o["HAMode"].s \in WireCodes
                 THEN ACTION_MAP[o["HAMode"].s] ELSE "off",
        !.attr_fan_mode = IF "FanSpeed" \in DOMAIN o THEN o["FanSpeed"] ELSE @,
        !.attr_swing_mode = IF "SwingV" \in DOMAIN o THEN o["SwingV"] ELSE @,
        !.swing_h_mode = IF "SwingH" \in DOMAIN o THEN o["SwingH"] ELSE @]

C3_PartialUpdate ==
    [][(last'.op = "state_received" /\ WellFormedSettings(last'.arg)) =>
          /\ ent' = SettingsApplied(ent, last'.arg.o)
          /\ last'.exc = "none"]_vars

\* A FanSpeed-only payload has been applied to an entity whose target
\* temperature, mode, swing and availability had been set before.
C3_FanOnlyWitness ==
    /\ last.op = "state_received"
    /\ last.arg = Object([key \in {"FanSpeed"} |-> Str("quiet")])
    /\ ent.attr_fan_mode = Str("quiet")
    /\ ent.attr_target_temperature = Num(210)
    /\ ent.attr_hvac_mode = "cool"
    /\ ent.attr_swing_mode = Str("up")
    /\ ent.attr_current_temperature = Num(205)
    /\ ent.available

(***************************************************************************)
(* C4.  Discovery deduplication: during one setup the listener dispatches  *)
(* at most one creation signal per device id and exactly one entity exists *)
(* for every device id it has seen.                                        *)
(* (Violated: a qualifying message handled after the listener subscribed   *)
(* and before the platform connected its receiver marks the device seen    *)
(* and its signal reaches nobody; no entity is ever created for it.)       *)
(***************************************************************************)
C4_OneEntityPerDevice ==
    \A d \in DeviceIds :
        /\ signals[d] <= 1
        /\ created[d] <= 1
        /\ (entry = "loaded" /\ d \in discovered) => created[d] = 1

(***************************************************************************)
(* C5.  UNLINKED to LINKED: an entity without MAC that receives a STATUS1  *)
(* message carrying a MAC (StatusNET.Mac, else the top-level Mac) stores   *)
(* it and publishes a retained discovery document to                       *)
(* homeassistant/climate/<K>_mielhvac/config, K the MAC without colons in  *)
(* upper case; the document's topics are the entity's own.                 *)
(***************************************************************************)
\* The device key of the MACs of the model, written out.
ExpectedKey(m) ==
    IF m = Mac1 THEN <<"A", "A", "B", "B", "C", "C", "D", "D", "E", "E", "F", "F">>
    ELSE IF m = Mac2 THEN <<"0", "2", "C", "F">>
    ELSE << >>

ExpectedTopic(m) ==
    [pfx |-> "homeassistant/climate", mid |-> ExpectedKey(m), leaf |-> "_mielhvac/config"]

\* The MAC a STATUS1 object carries.
CarriedMac(p) ==
    IF p.net = "object" /\ p.netmac.k = "str" THEN p.netmac
    ELSE IF p.mac.k = "str" THEN p.mac
    ELSE NoMac

OwnTopics(doc, B) ==
    /\ doc.availability_topic = [pfx |-> "tele", mid |-> B, leaf |-> "LWT"]
    /\ doc.current_temperature_topic = [pfx |-> "tele", mid |-> B, leaf |-> "SENSOR"]
    /\ doc.temperature_state_topic = [pfx |-> "tele", mid |-> B, leaf |-> "HVACSETTINGS"]
    /\ doc.mode_state_topic = [pfx |-> "tele", mid |-> B, leaf |-> "HVACSETTINGS"]
    /\ doc.fan_mode_state_topic = [pfx |-> "tele", mid |-> B, leaf |-> "HVACSETTINGS"]
    /\ doc.swing_mode_state_topic = [pfx |-> "tele", mid |-> B, leaf |-> "HVACSETTINGS"]
    /\ doc.temperature_command_topic = [pfx |-> "cmnd", mid |-> B, leaf |-> "HVACSetTemp"]
    /\ doc.mode_command_topic = [pfx |-> "cmnd", mid |-> B, leaf |-> "HVACSetHAMode"]
    /\ doc.fan_mode_command_topic = [pfx |-> "cmnd", mid |-> B, leaf |-> "HVACSetFanSpeed"]
    /\ doc.swing_mode_command_topic = [pfx |-> "cmnd", mid |-> B, leaf |-> "HVACSetSwingV"]

IsDiscoveryPublish(pub, m, B) ==
    /\ pub.topic = ExpectedTopic(m)
    /\ pub.retain
    /\ pub.payload.k = "doc"
    /\ pub.payload.unique_id = ExpectedKey(m)
    /\ OwnTopics(pub.payload, B)

C5_LinkOnStatus ==
    [][(/\ last'.op = "info_received"
        /\ last'.arg.k = "object"
        /\ CarriedMac(last'.arg) # NoMac
        /\ ent.mac_address = NoMac) =>
          /\ ent'.mac_address = CarriedMac(last'.arg)
          /\ last'.exc = "none"
          /\ \E t \in BagToSet(tasks') :
                /\ t.t = "publish"
                /\ IsDiscoveryPublish(t.pub, CarriedMac(last'.arg), ent.base_topic)
          /\ \A t \in BagToSet(tasks' (-) tasks) : t.t = "publish"]_vars

\* The entity has just been linked by a STATUS1 message whose StatusNET.Mac
\* is AA:BB:CC:DD:EE:FF, and the document for AABBCCDDEEFF awaits its publish.
C5_LinkedWitness ==
    /\ last.op = "info_received"
    /\ last.arg = InfoMsgOf("object", "object", Mac1, Mac2)
    /\ ent.mac_address = Mac1
    /\ \E t \in BagToSet(tasks) :
          /\ t.t = "publish"
          /\ t.pub.retain
          /\ t.pub.topic.mid = <<"A", "A", "B", "B", "C", "C", "D", "D", "E", "E", "F", "F">>

(***************************************************************************)
(* C6.  Unload ordering of the discovery variant: removal unsubscribes     *)
(* before the clear publish is attempted; the clear publish has an empty   *)
(* payload, retain set, and goes to the discovery topic of the MAC the     *)
(* entity holds at removal; an entity without MAC makes no clear publish.  *)
(* Every document is published to the topic of the MAC the entity holds    *)
(* when the publish is scheduled, so the clear publish goes to the topic   *)
(* of every document published under the MAC held at removal.  A document  *)
(* published under an earlier MAC, which a discovery signal carrying       *)
(* another MAC leaves behind, is on another topic.                         *)
(***************************************************************************)
ClearPublish(m) ==
    [topic |-> ExpectedTopic(m), payload |-> [k |-> "text", s |-> ""], qos |-> 1,
     retain |-> TRUE]

C7_ClearedAfterTeardown ==
    (pc = "removed" /\ tasks = EmptyBag /\ ent.mac_address.k = "str" /\ ent.mac_address.c # << >>) =>
        /\ ExpectedTopic(ent.mac_address) \in DOMAIN retained
        /\ retained[ExpectedTopic(ent.mac_address)] = [k |-> "text", s |-> ""]

(***************************************************************************)
(* C8.  Subscriptions are cancelled when the entity is removed, in both    *)
(* variants: after removal no subscription is left and no handler runs.    *)
(* (Violated by the static variant, which keeps no unsubscribe callable.)  *)
(***************************************************************************)
C8_SubscriptionsSymmetric ==
    pc \in {"clearing", "removed"} => (subs = {} /\ last.op \notin HandlerOps)

(***************************************************************************)
(* C9.  Commands and local state.  Static variant: no command changes a    *)
(* state field and nothing of the command remains pending.  Discovery      *)
(* variant: the command step itself changes no field; after its publish    *)
(* the handler resumes, sets exactly the field of the command to the       *)
(* requested value and notifies the host.                                  *)
(***************************************************************************)
\* The step takes the suspended command c out of the pending ones.
Resumed(c) == BagIn(c, cmd) /\ cmd' = cmd (-) SetToBag({c})

OptimisticApplied(e, c) ==
    [e EXCEPT
        !.attr_target_temperature = IF c.op = "set_temperature" THEN c.arg ELSE @,
        !.attr_hvac_mode = IF c.op = "set_hvac_mode" THEN c.arg.s ELSE @,
        !.attr_fan_mode = IF c.op = "set_fan_mode" THEN c.arg ELSE @,
        !.attr_swing_mode = IF c.op = "set_swing_mode" THEN c.arg ELSE @]

C9_CommandLocalState ==
    [][/\ last'.op \in CommandOps =>
             /\ ent' = ent
             /\ ~ last'.notified
             /\ variant = "static" => cmd' = EmptyBag
             /\ (variant = "discovery" /\ last'.pubs # << >>) =>
                    cmd' = cmd (+) SetToBag({[op |-> last'.op, arg |-> last'.arg]})
       /\ last'.op = "optimistic_update" =>
             /\ variant = "discovery"
             /\ \E c \in BagToSet(cmd) :
                    /\ Resumed(c)
                    /\ c.op \in CommandOps
                    /\ c.arg = last'.arg
                    /\ ent' = OptimisticApplied(ent, c)
             /\ last'.notified
             /\ last'.pubs = << >>]_vars

\* The discovery variant has resumed after a set-temperature publish and
\* holds the requested target, its other fields set earlier by the device.
C9_OptimisticWitness ==
    /\ variant = "discovery"
    /\ last.op = "optimistic_update"
    /\ ent.attr_target_temperature = Num(219)
    /\ ent.attr_fan_mode = Str("quiet")
    /\ ent.attr_hvac_mode = "cool"

(***************************************************************************)
(* C10.  Invalid command input is a silent no-op in both variants: a fan   *)
(* mode outside FAN_MODES, a swing mode outside SWING_V_MODES, a missing   *)
(* temperature or a mode without wire code publishes nothing, changes no   *)
(* field, notifies nobody, raises nothing and leaves nothing pending.      *)
(***************************************************************************)
InvalidCommand(l) ==
    \/ l.op = "set_temperature" /\ l.arg = None
    \/ l.op = "set_hvac_mode" /\ l.arg.s \notin DOMAIN HVAC_MODE_REVERSE_MAP
    \/ l.op = "set_fan_mode" /\ l.arg.s \notin FAN_MODES
    \/ l.op = "set_swing_mode" /\ l.arg.s \notin SWING_V_MODES

C10_InvalidCommandNoOp ==
    [][InvalidCommand(last') =>
          /\ last'.pubs = << >>
          /\ last'.exc = "none"
          /\ ~ last'.notified
          /\ ent' = ent
          /\ cmd' = cmd
          /\ tasks' = tasks
          /\ retained' = retained]_vars

\* A fan mode outside the allowed set has been requested of an entity.
C10_InvalidFanWitness ==
    /\ last.op = "set_fan_mode"
    /\ last.arg = Str("turbo")
    /\ last.pubs = << >>
    /\ pc = "added"

(***************************************************************************)
(* The set-temperature command over a range of targets, in tenths of a     *)
(* degree (20.8 to 22.5), with calls made while earlier ones are suspended. *)
(***************************************************************************)
TempMinTenths == 208
TempMaxTenths == 225

RangeTemperatures == {Num(t) : t \in TempMinTenths..TempMaxTenths} \cup {None}

NextTemperature ==
    \/ AddStatic
    \/ AddDiscovery({NoState})
    \/ SubscribeTopics
    \/ RunTask
    \/ SetTemperature(RangeTemperatures)
    \/ CommandResume

SpecTemperature == Init /\ [][NextTemperature]_vars

(***************************************************************************)
(* C11.  A set-temperature command with target t publishes to              *)
(* cmnd/B/HVACSetTemp the decimal text of t with its fraction dropped,     *)
(* never rounded: 21.9 publishes "21".                                     *)
(***************************************************************************)
\* The whole degrees of a target given in tenths.
WholeDegrees(t) == CHOOSE q \in 0..t : q * 10 <= t /\ t < q * 10 + 10

C11_TemperatureTruncated ==
    [][(last'.op = "set_temperature" /\ last'.arg.k = "num") =>
          /\ Len(last'.pubs) = 1
          /\ last'.pubs[1].topic = [pfx |-> "cmnd", mid |-> ent.base_topic, leaf |-> "HVACSetTemp"]
          /\ last'.pubs[1].payload = [k |-> "text", s |-> ToString(WholeDegrees(last'.arg.n))]
          /\ ~ last'.pubs[1].retain
          /\ last'.arg.n = 219 => last'.pubs[1].payload.s = "21"]_vars

\* 21.9 has been requested of a static entity and "21" published.
C11_TruncatedWitness ==
    /\ variant = "static"
    /\ last.op = "set_temperature"
    /\ last.arg = Num(219)
    /\ last.pubs # << >>
    /\ last.pubs[1].payload.s = "21"

(***************************************************************************)
(* C12.  Once the entity is LINKED, a further STATUS1 message carrying the *)
(* same MAC is a no-op: MAC and device info are unchanged, no discovery    *)
(* document is published or scheduled and the host is not notified.  The   *)
(* same holds for a discovery signal that brings the MAC already stored.   *)
(***************************************************************************)
C12_SameMacNoOp ==
    [][/\ (/\ last'.op = "info_received"
           /\ last'.arg.k = "object"
           /\ ent.mac_address # NoMac
           /\ CarriedMac(last'.arg) = ent.mac_address) =>
              /\ ent' = ent
              /\ tasks' = tasks
              /\ retained' = retained
              /\ last'.pubs = << >>
              /\ ~ last'.notified
              /\ last'.exc = "none"
       /\ (/\ last'.op = "async_discover_hvac"
           /\ pc # "none"
           /\ ent.mac_address # NoMac
           /\ last'.arg.mac = ent.mac_address
           /\ last'.arg.device_name \in {NoMac, ent.device_name}) =>
              /\ ent' = ent
              /\ tasks' = tasks
              /\ ~ last'.notified]_vars

\* A linked entity has handled a STATUS1 message that carries its own MAC.
C12_SameMacWitness ==
    /\ last.op = "info_received"
    /\ last.arg = InfoMsgOf("object", "object", Mac1, Mac2)
    /\ ent.mac_address = Mac1
    /\ ~ last.notified
    /\ "info" \in subs

(***************************************************************************)
(* The whole lifetime of one discovered entity: creation, linking, name    *)
(* updates, commands and removal.  The signal brings any name, the device  *)
(* id among them, with or without the MAC the device reports.              *)
(***************************************************************************)
NextLifetime ==
    \/ DiscoverSignal({Dev1}, {NoMac, Mac1}, SignalNames)
    \/ AddDiscovery({NoState})
    \/ SubscribeTopics
    \/ InfoMsg({InfoMsgOf("object", "object", Mac1, Mac2),
               InfoMsgOf("object", "absent", AbsentMac, AbsentMac)})
    \/ SetTemperature({Num(219)})
    \/ SetFanMode({Str("quiet")})
    \/ CommandResume
    \/ RunTask
    \/ Remove

SpecLifetime == InitLink /\ [][NextLifetime]_vars

(***************************************************************************)
(* C13.  The status request (payload "1" to cmnd/B/Status) is issued once  *)
(* in the lifetime of an entity created without MAC, by its creation, and  *)
(* never for an entity created with a MAC: only creation without MAC       *)
(* schedules it, an entity is created once, the scheduled request runs     *)
(* once, and nothing else publishes to that topic.                         *)
(***************************************************************************)
StatusRequest(B) ==
    [t |-> "status_request",
     pub |-> [topic |-> [pfx |-> "cmnd", mid |-> B, leaf |-> "Status"],
              payload |-> [k |-> "text", s |-> "1"], qos |-> 1, retain |-> FALSE]]

IsStatusRequest(t) == t.t = "status_request" \/ t.pub.topic.leaf = "Status"

C13_StatusRequestOnce ==
    [][/\ (\E t \in BagToSet(tasks' (-) tasks) : IsStatusRequest(t)) =>
              /\ last'.op = "async_discover_hvac"
              /\ pc = "none"
              /\ last'.arg.mac = NoMac
       /\ (last'.op = "async_discover_hvac" /\ pc = "none") =>
              /\ pc' = "constructed"
              /\ last'.arg.mac = NoMac => BagIn(StatusRequest(ent'.base_topic), tasks')
              /\ last'.arg.mac # NoMac => \A t \in BagToSet(tasks') : ~ IsStatusRequest(t)
       /\ pc # "none" => pc' # "none"
       /\ (\E i \in 1..Len(last'.pubs) : last'.pubs[i].topic.leaf = "Status") =>
              /\ last'.op = "status_request"
              /\ last'.pubs = <<StatusRequest(ent.base_topic).pub>>
              /\ BagIn(StatusRequest(ent.base_topic), tasks)
              /\ \A t \in BagToSet(tasks') : ~ IsStatusRequest(t)
       /\ BagCardinality(tasks') - BagCardinality(tasks' (-) SetToBag({StatusRequest(ent'.base_topic)})) <= 1
       /\ \A t \in BagToSet(tasks') : IsStatusRequest(t) => t = StatusRequest(ent'.base_topic)]_vars

\* The request of an entity created without MAC has been published; the
\* entity has been added and none is pending any more.
C13_RequestedWitness ==
    /\ last.op = "status_request"
    /\ last.pubs = <<StatusRequest(Dev1).pub>>
    /\ pc = "added"
    /\ \A t \in BagToSet(tasks) : ~ IsStatusRequest(t)

(***************************************************************************)
(* C14.  A device-name update is stored in any MAC state; it schedules a   *)
(* discovery publish only when the entity is LINKED; a name stored while   *)
(* UNLINKED is the display name of the document published when the entity  *)
(* becomes LINKED, and without a name the display name is the device id.   *)
(* A signal schedules one publish for a MAC it brings to an entity that    *)
(* has another or none, and one more for a new name of a LINKED entity.    *)
(***************************************************************************)
DisplayName(e) == IF e.device_name = NoMac THEN e.device_id ELSE e.device_name.c

IsDocFor(t, e) ==
    /\ t.t = "publish"
    /\ t.pub.payload.k = "doc"
    /\ t.pub.payload.device_name = DisplayName(e)
    /\ t.pub.topic = ExpectedTopic(e.mac_address)

C14_DeviceName ==
    [][/\ (/\ last'.op = "async_discover_hvac"
           /\ pc # "none"
           /\ last'.arg.device_name # NoMac) =>
              /\ ent'.device_name = last'.arg.device_name
              /\ (ent.mac_address = NoMac /\ last'.arg.mac = NoMac) =>
                    (tasks' = tasks /\ ent'.mac_address = NoMac)
              /\ (ent.mac_address # NoMac /\ ent.device_name # last'.arg.device_name) =>
                    \E t \in BagToSet(tasks') : IsDocFor(t, ent')
       /\ (last'.op = "async_discover_hvac" /\ pc # "none") =>
              BagCardinality(tasks' (-) tasks) =
                  (IF last'.arg.mac # NoMac /\ ent.mac_address # last'.arg.mac THEN 1 ELSE 0)
                  + (IF /\ last'.arg.device_name # NoMac
                        /\ ent.device_name # last'.arg.device_name
                        /\ ent'.mac_address # NoMac
                     THEN 1 ELSE 0)
       /\ last'.op \in {"info_received", "delayed"} =>
              \A t \in BagToSet(tasks' (-) tasks) : IsDocFor(t, ent')]_vars

\* The entity was given its name while UNLINKED and has now been linked by
\* a STATUS1 message: the document awaiting publish shows the name.
C14_NamedLinkWitness ==
    /\ last.op = "info_received"
    /\ last.notified
    /\ ent.device_name = Name1
    /\ ent.mac_address = Mac1
    /\ \E t \in BagToSet(tasks) : t.t = "publish" /\ t.pub.payload.device_name = Name1.c

(***************************************************************************)
(* HVACSETTINGS messages that carry an HAMode: recognized and unrecognized *)
(* codes of every JSON type, alone or next to a Temp that is numeric or    *)
(* not.                                                                    *)
(***************************************************************************)
ModeValues == {Str("cool"), Str("heat"), Str("bogus"), Str(""), Num(30), None, ListV}

ModeTempValues == {Num(210), Str("abc")}

ModePayloads ==
    {Object([key \in {"HAMode"} |-> m]) : m \in ModeValues}
    \cup {Object([key \in {"Temp", "HAMode"} |-> IF key = "Temp" THEN t ELSE m]) :
            t \in ModeTempValues, m \in ModeValues}

NextMode ==
    \/ AddStatic
    \/ AddDiscovery({NoState})
    \/ SubscribeTopics
    \/ RunTask
    \/ StateMsg(ModePayloads)

SpecMode == Init /\ [][NextMode]_vars

(***************************************************************************)
(* C15.  When a well-formed HVACSETTINGS message (a JSON object whose      *)
(* Temp, if present, is numeric and whose HAMode is hashable) carries an   *)
(* HAMode that is not a recognized wire mode code, both operating mode and *)
(* operating action are set to off, whatever they were.                    *)
(***************************************************************************)
Unrecognized(v) == ~ (v.k = "str" /\ v.s \in WireCodes)

CarriesUnrecognizedMode(l) ==
    /\ l.op = "state_received"
    /\ l.arg.k = "object"
    /\ "HAMode" \in DOMAIN l.arg.o
    /\ Unrecognized(l.arg.o["HAMode"])

C15_UnrecognizedModeOff ==
    [][(CarriesUnrecognizedMode(last') /\ WellFormedSettings(last'.arg)) =>
          /\ ent'.attr_hvac_mode = "off"
          /\ ent'.attr_hvac_action = "off"
          /\ last'.exc = "none"
          /\ last'.notified]_vars

\* C15 as stated, for every message that carries an unrecognized HAMode.
\* (Violated: a message whose Temp is not numeric is discarded before its
\* HAMode is read, and an unhashable HAMode raises; mode and action stay.)
C15_AnyUnrecognizedModeOff ==
    [][CarriesUnrecognizedMode(last') =>
          /\ ent'.attr_hvac_mode = "off"
          /\ ent'.attr_hvac_action = "off"]_vars

\* An unknown code has been handled by an entity that had received a Temp.
C15_BogusModeWitness ==
    /\ last.op = "state_received"
    /\ last.arg = Object([key \in {"HAMode"} |-> Str("bogus")])
    /\ ent.attr_hvac_mode = "off"
    /\ ent.attr_hvac_action = "off"
    /\ ent.attr_target_temperature = Num(210)

(***************************************************************************)
(* C16.  A SENSOR payload without a Temperature under the model key (the   *)
(* key absent, its value without Temperature, or Temperature null) leaves  *)
(* the current temperature and every other state field unchanged and does *)
(* not notify the host.                                                    *)
(***************************************************************************)
NoTemperature(p, model) ==
    /\ p.k = "object"
    /\ \/ p.key # model
       \/ p.mk # "object"
       \/ p.t.k \in {"absent", "null"}

C16_NoTemperatureNoChange ==
    [][(last'.op = "current_temp_received" /\ NoTemperature(last'.arg, ent.model)) =>
          /\ ent' = ent
          /\ ~ last'.notified
          /\ last'.pubs = << >>
          /\ tasks' = tasks]_vars

\* A payload with a null Temperature has been handled by an entity that
\* had measured 20.5 before, and still shows it.
C16_NullTemperatureWitness ==
    /\ last.op = "current_temp_received"
    /\ last.arg = SensorMsgOf("object", "MiElHVAC", "object", None)
    /\ ent.attr_current_temperature = Num(205)
    /\ ~ last.notified

(***************************************************************************)
(* Mode commands for every semantic mode, with the device's echoes, under  *)
(* every table const.py may hold.                                          *)
(***************************************************************************)
InitRoundTrip == (InitStatic \/ InitDiscovered) /\ hvac_mode_map \in ModeTables

SemanticModes == {"off", "auto", "cool", "dry", "heat", "fan_only", "heat_cool"}

EchoPayloads == {Object([key \in {"HAMode"} |-> Str(w)]) : w \in WireCodes}

NextRoundTrip ==
    \/ AddStatic
    \/ AddDiscovery({NoState})
    \/ SubscribeTopics
    \/ RunTask
    \/ SetHvacMode({Str(m) : m \in SemanticModes})
    \/ CommandResume
    \/ StateMsg(EchoPayloads)

SpecRoundTrip == InitRoundTrip /\ [][NextRoundTrip]_vars

(***************************************************************************)
(* C17.  Mode round trip, whatever the wire codes of the table are: a      *)
(* set-mode command for a semantic mode m that has a wire code publishes   *)
(* that code w, the one the forward table maps back to m, and the device's *)
(* echo HAMode = w leaves the entity in mode m, before or after the        *)
(* discovery variant's own update; a mode without wire code publishes      *)
(* nothing.                                                                *)
(***************************************************************************)
SixModes == {"off", "auto", "cool", "dry", "heat", "fan_only"}

EchoOf(pub) == [k |-> "object", o |-> [key \in {"HAMode"} |-> [k |-> "str", n |-> 0, s |-> pub.payload.s]]]

ListenerFailure(a) ==
    \/ ~ (a.topic.pfx = "tele" /\ a.topic.leaf = "SENSOR" /\ Len(a.topic.mid) > 0)
    \/ a.payload.k # "object"
    \/ a.payload.key = "MiElHVAC" /\ a.payload.mk # "object"

C18_ListenerNeverRaises ==
    [][last'.op = "sensor_message_received" =>
          /\ last'.exc = "none"
          /\ ListenerFailure(last'.arg) =>
                /\ discovered' = discovered
                /\ signals' = signals
                /\ created' = created
                /\ ent' = ent
                /\ pc' = pc
                /\ tasks' = tasks]_vars

\* A SENSOR message whose MiElHVAC value is no object has been handled
\* after an entity had been discovered and created: the listener caught the
\* exception.
C18_CaughtWitness ==
    /\ last.op = "sensor_message_received"
    /\ last.arg.payload = SensorMsgOf("object", "MiElHVAC", "scalar", Absent)
    /\ last.arg.topic.mid = Dev2
    /\ last.caught
    /\ last.exc = "none"
    /\ discovered = {Dev1}
    /\ entry = "loaded"

(***************************************************************************)
(* Availability next to every other handler and command of an entity.      *)
(***************************************************************************)
NextAvailability ==
    \/ AddStatic
    \/ AddDiscovery({NoState, StoredState("unavailable", None, None, None, None)})
    \/ SubscribeTopics
    \/ RunTask
    \/ AvailabilityMsg({"Online", "Offline", "online", ""})
    \/ SensorMsg({SensorMsgOf("object", "MiElHVAC", "object", Num(205))})
    \/ StateMsg({Object([key \in {"HAMode"} |-> Str("cool")]),
                 Object([key \in {"Temp"} |-> None])})
    \/ InfoMsg({InfoMsgOf("object", "object", Mac1, AbsentMac)})
    \/ SetTemperature({Num(219)})
    \/ SetHvacMode({Str("heat")})
    \/ SetFanMode(FanModeArgs)
    \/ SetSwingMode({Str("up")})
    \/ CommandResume
    \/ Remove

SpecAvailability == Init /\ [][NextAvailability]_vars

(***************************************************************************)
(* C19.  The availability flag is false initially; an LWT message sets it  *)
(* to whether its payload is the literal text "Online"; no other handler,  *)
(* command or lifecycle step changes it.                                   *)
(***************************************************************************)
C19_AvailabilityFollowsLWT ==
    [][/\ last.op = "init" => ~ ent.available
       /\ last'.op = "availability_received" =>
             /\ ent'.available = (last'.arg = [k |-> "text", s |-> "Online"])
             /\ last'.exc = "none"
       /\ last'.op # "availability_received" => ent'.available = ent.available]_vars

\* "Online" made the entity available and a later command left it so.
C19_OnlineWitness ==
    /\ ent.available
    /\ last.op = "set_fan_mode"
    /\ pc = "added"

(***************************************************************************)
(* The setup form of the static variant.  async_step_user without input    *)
(* shows the form; with input it sets the flow's unique id to the device   *)
(* id, aborts when an entry with that unique id exists, and otherwise      *)
(* creates the entry.                                                      *)
(***************************************************************************)
\* A flow that never finds its unique id configured.
abort_if_unique_id_configured_never(unique_id) == FALSE

\* _abort_if_unique_id_configured: the host raises AbortFlow when an entry
\* of the domain has the flow's unique id.
abort_if_unique_id_configured(unique_id) == configured[unique_id] > 0

async_step_user(user_input) ==
    IF user_input = NoMac THEN [result |-> "form", configured |-> configured]
    ELSE IF abort_if_unique_id_configured(user_input.c)
    THEN [result |-> "abort", configured |-> configured]
    ELSE [result |-> "create_entry",
          configured |-> [configured EXCEPT ![user_input.c] = @ + 1]]

StepUser(U) ==
    \E user_input \in U :
        LET r == async_step_user(user_input)
        IN  /\ configured' = r.configured
            /\ last' = Last("async_step_user", user_input, "none", FALSE, FALSE, << >>)
                          @@ [result |-> r.result]
            /\ UNCHANGED <<restored, variant, hvac_mode_map, pc, ent, subs, tasks, cmd, retained, entry, discovered,
                           created, signals, batch, reply>>

FlowInputs == {NoMac} \cup {MacStr(d) : d \in FlowDeviceIds}

InitFlow ==
    /\ variant = "static"
    /\ hvac_mode_map = NamedTable
    /\ pc = "none"
    /\ ent = NewStaticEntity(EntryData(Dev1, AbsentMac, Absent))
    /\ subs = {}
    /\ tasks = EmptyBag
    /\ cmd = EmptyBag
    /\ retained = << >>
    /\ last = Last("init", None, "none", FALSE, FALSE, << >>)
    /\ entry = "static"
    /\ discovered = {}
    /\ created = NoSignals
    /\ signals = NoSignals
    /\ configured \in {ConfiguredBy(D) : D \in SUBSET {Dev1, Dev2}}
    /\ batch = NoBatch
    /\ reply = "idle"
    /\ restored = FALSE

NextFlow == StepUser(FlowInputs)

SpecFlow == InitFlow /\ [][NextFlow]_vars

(***************************************************************************)
(* C20.  A setup attempt whose device id is that of a configured entry is  *)
(* aborted and creates no entry; an attempt with a new device id creates   *)
(* exactly its entry; configured device ids stay pairwise distinct.        *)
(***************************************************************************)
C20_UniqueDeviceIds ==
    [][/\ \A d \in FlowDeviceIds : configured[d] <= 1 /\ configured'[d] <= 1
       /\ (last'.op = "async_step_user" /\ last'.arg.k = "str") =>
             /\ configured[last'.arg.c] = 1 =>
                   (last'.result = "abort" /\ configured' = configured)
             /\ configured[last'.arg.c] = 0 =>
                   /\ last'.result = "create_entry"
                   /\ configured'[last'.arg.c] = 1
                   /\ \A d \in FlowDeviceIds \ {last'.arg.c} : configured'[d] = configured[d]]_vars

\* A second attempt for hp1 has been aborted while hp1 and HP1 are both
\* configured, once each.
C20_AbortedWitness ==
    /\ last.op = "async_step_user"
    /\ last.arg = MacStr(Dev1)
    /\ last.result = "abort"
    /\ configured[Dev1] = 1
    /\ configured[DevUpper] = 1

(***************************************************************************)
(* Delivery order.  The broker holds one message per subscribed topic of   *)
(* the device and delivers them in any order.                              *)
(***************************************************************************)
BatchPayloads(topic) ==
    CASE topic = "availability" -> {Text("Online"), Text("Offline")}
      [] topic = "sensor" -> {SensorMsgOf("object", "MiElHVAC", "object", Num(205)),
                              SensorMsgOf("object", "MiElHVAC", "object", Absent)}
      [] topic = "state" -> {Object([key \in {"Temp"} |-> Num(210)]),
                             Object([key \in {"HAMode"} |-> Str("bogus")]),
                             Object([key \in SettingsKeys |->
                                        CASE key = "Temp" -> Num(220)
                                          [] key = "HAMode" -> Str("cool")
                                          [] key = "FanSpeed" -> Str("quiet")
                                          [] key = "SwingV" -> Str("up")
                                          [] key = "SwingH" -> Str("left")])}
      [] topic = "info" -> {InfoMsgOf("object", "object", Mac1, AbsentMac),
                            InfoMsgOf("object", "absent", AbsentMac, AbsentMac)}

\* The handler subscribed under a name, applied to a payload.
HandlerOf(topic, e, m) ==
    CASE topic = "availability" -> availability_received(e, m.s)
      [] topic = "sensor" -> current_temp_received(e, m)
      [] topic = "state" -> state_received(e, m)
      [] topic = "info" -> info_received(e, m)

HandlerName(topic) ==
    CASE topic = "availability" -> "availability_received"
      [] topic = "sensor" -> "current_temp_received"
      [] topic = "state" -> "state_received"
      [] topic = "info" -> "info_received"

\* One payload for each of the entity's subscriptions.
Batches(S) ==
    IF "info" \in S
    THEN {[availability |-> a, sensor |-> t, state |-> o, info |-> i] :
              a \in BatchPayloads("availability"), t \in BatchPayloads("sensor"),
              o \in BatchPayloads("state"), i \in BatchPayloads("info")}
    ELSE {[availability |-> a, sensor |-> t, state |-> o] :
              a \in BatchPayloads("availability"), t \in BatchPayloads("sensor"),
              o \in BatchPayloads("state")}

\* Messages for every active subscription are sent to the entity.
SendBatch ==
    /\ pc = "added"
    /\ batch.pending = {}
    /\ \E m \in Batches(subs) :
           batch' = [pending |-> subs, msgs |-> m, start |-> ent]
    /\ UNCHANGED <<restored, variant, hvac_mode_map, pc, ent, subs, tasks, cmd, retained, last, entry, discovered,
                   created, signals, configured, reply>>

\* One of the messages in flight reaches its handler.
Deliver ==
    \E t \in batch.pending :
        /\ t \in subs
        /\ LET m == batch.msgs[t]
               r == HandlerOf(t, ent, m)
           IN  /\ ent' = r.e
               /\ tasks' = tasks (+) SetToBag(r.sched)
               /\ last' = Last(HandlerName(t), m, r.exc, r.caught, r.notified, << >>)
        /\ batch' = [batch EXCEPT !.pending = @ \ {t}]
        /\ UNCHANGED <<restored, variant, hvac_mode_map, pc, subs, cmd, retained, entry, discovered, created, signals,
                       configured, reply>>

NextDelivery ==
    \/ AddStatic
    \/ AddDiscovery({NoState})
    \/ SubscribeTopics
    \/ SendBatch
    \/ Deliver

SpecDelivery == Init /\ [][NextDelivery]_vars

(***************************************************************************)
(* C21.  For one well-formed message per topic of the device, the entity   *)
(* after all of them have been handled is the same whatever the order of   *)
(* delivery: it is the entity obtained by handling them in the order LWT,  *)
(* SENSOR, HVACSETTINGS, STATUS1.                                          *)
(***************************************************************************)
TopicOrder == <<"availability", "sensor", "state", "info">>

RECURSIVE HandledInOrder(_, _, _)
HandledInOrder(e, msgs, i) ==
    IF i > Len(TopicOrder) THEN e
    ELSE IF TopicOrder[i] \in DOMAIN msgs
    THEN HandledInOrder(HandlerOf(TopicOrder[i], e, msgs[TopicOrder[i]]).e, msgs, i + 1)
    ELSE HandledInOrder(e, msgs, i + 1)

AllDelivered == batch.msgs # << >> /\ batch.pending = {}

C21_HandlersCommute ==
    AllDelivered => ent = HandledInOrder(batch.start, batch.msgs, 1)

\* Four messages have been handled with the LWT last, after the STATUS1
\* that linked the entity and a full HVACSETTINGS.
C21_LwtLastWitness ==
    /\ AllDelivered
    /\ DOMAIN batch.msgs = DiscoverySubs
    /\ last.op = "availability_received"
    /\ batch.msgs["availability"] = Text("Offline")
    /\ batch.msgs["sensor"].t = Num(205)
    /\ TruthyMac(ent.mac_address)
    /\ ~ TruthyMac(batch.start.mac_address)
    /\ ent.attr_target_temperature = Num(220)
    /\ ent.attr_current_temperature = Num(205)

(***************************************************************************)
(* Everything that writes the fields of a constructed entity of the        *)
(* discovery variant: the four handlers, the setters reached through the   *)
(* discovery signal, and the four commands with their optimistic updates.  *)
(***************************************************************************)
NotifySettingsPayloads ==
    {Object([key \in {"Temp", "HAMode"} |-> IF key = "Temp" THEN Num(219) ELSE ListV]),
     Object([key \in {"HAMode", "FanSpeed"} |-> IF key = "HAMode" THEN Str("cool") ELSE Str("quiet")])}

NextNotify ==
    \/ DiscoverSignal({Dev1}, {NoMac, Mac1}, {NoMac, MacStr(Dev1)})
    \/ AddDiscovery({NoState})
    \/ SubscribeTopics
    \/ AvailabilityMsg({"Online"})
    \/ SensorMsg({SensorMsgOf("object", "MiElHVAC", "object", Num(205))})
    \/ StateMsg(NotifySettingsPayloads)
    \/ InfoMsg({InfoMsgOf("object", "object", Mac1, AbsentMac)})
    \/ SetTemperature({Num(219)})
    \/ SetHvacMode({Str("cool")})
    \/ SetFanMode({Str("quiet")})
    \/ SetSwingMode({Str("up")})
    \/ CommandResume

SpecNotify == InitNamed /\ [][NextNotify]_vars

(***************************************************************************)
(* C22.  A handler run, a setter call through the discovery signal or an   *)
(* optimistic update that changes a field of the entity and completes      *)
(* without raising has called async_write_ha_state.                        *)
(***************************************************************************)
MutatingOps == HandlerOps \cup {"async_discover_hvac", "optimistic_update"}

C22_MutationNotifies ==
    [][(/\ last'.op \in MutatingOps
        /\ pc # "none"
        /\ ent' # ent
        /\ last'.exc = "none")
       => last'.notified]_vars

\* The discovery signal has brought an entity that had neither a MAC and,
\* as its name, the device id: both setters have run, each has scheduled
\* its publish of the same document, and the host has been notified.
C22_NamedWitness ==
    /\ last.op = "async_discover_hvac"
    /\ last.arg.mac = Mac1
    /\ last.arg.device_name = MacStr(Dev1)
    /\ last.notified
    /\ last.exc = "none"
    /\ ent.device_name = MacStr(Dev1)
    /\ ent.mac_address = Mac1
    /\ \E t \in BagToSet(tasks) : t.t = "publish" /\ CopiesIn(t, tasks) = 2
    /\ pc = "added"
    /\ ent.available

(***************************************************************************)
(* C23.  The listener sends the creation signal for a device only on a     *)
(* message on tele/<device>/SENSOR whose payload is an object with a       *)
(* MiElHVAC object that has a Temperature; any other message leaves the    *)
(* seen-set and the signals as they were, and a qualifying message for a   *)
(* device not yet seen sends the signal, marks the device seen and, with   *)
(* the platform connected, constructs its entity.                          *)
(***************************************************************************)
Qualifying(m) ==
    /\ m.topic.pfx = "tele"
    /\ m.topic.leaf = "SENSOR"
    /\ m.topic.mid # << >>
    /\ m.payload.k = "object"
    /\ m.payload.key = "MiElHVAC"
    /\ m.payload.mk = "object"
    /\ m.payload.t.k # "absent"

C23_SignalOnlyOnQualifying ==
    [][last'.op = "sensor_message_received" =>
          LET m == last'.arg
              D == m.topic.mid
          IN  /\ ~ Qualifying(m) => (discovered' = discovered /\ signals' = signals
                                        /\ created' = created)
              /\ (Qualifying(m) /\ D \in discovered) =>
                     (discovered' = discovered /\ signals' = signals /\ created' = created)
              /\ (Qualifying(m) /\ D \notin discovered) =>
                     /\ discovered' = discovered \cup {D}
                     /\ signals' = [signals EXCEPT ![D] = @ + 1]
                     /\ (entry = "loaded" /\ created[D] = 0) => created'[D] = 1]_vars

\* A qualifying message for hp1 has just had its entity constructed.
C23_CreatedWitness ==
    /\ last.op = "sensor_message_received"
    /\ Qualifying(last.arg)
    /\ last.arg.topic.mid = Dev1
    /\ discovered = {Dev1}
    /\ signals[Dev1] = 1
    /\ created[Dev1] = 1
    /\ pc = "constructed"

(***************************************************************************)
(* C24.  Whatever a command of either variant publishes goes with QoS 1,   *)
(* not retained, to the mode, temperature, vertical swing or fan topic of  *)
(* the device; nothing is ever published, scheduled for publishing or      *)
(* retained on the horizontal swing topic.                                 *)
(***************************************************************************)
IssuedCommandTopics(B) ==
    {topic_cmd_mode(B), topic_cmd_temp(B), topic_cmd_swing_v(B), topic_cmd_fan(B)}

C24_CommandPublishes ==
    /\ last.op \in CommandOps =>
           \A i \in DOMAIN last.pubs :
               /\ last.pubs[i].qos = 1
               /\ ~ last.pubs[i].retain
               /\ last.pubs[i].topic \in IssuedCommandTopics(ent.base_topic)
    /\ \A i \in DOMAIN last.pubs : last.pubs[i].topic.leaf # "HVACSetSwingH"
    /\ \A t \in BagToSet(tasks) : t.pub.topic.leaf # "HVACSetSwingH"
    /\ \A topic \in DOMAIN retained : topic.leaf # "HVACSetSwingH"

\* The static variant has published a vertical swing command.
C24_SwingPublishedWitness ==
    /\ variant = "static"
    /\ last.op = "set_swing_mode"
    /\ last.pubs = <<Publish(topic_cmd_swing_v(Dev1), Text("up"), 1, FALSE)>>

(***************************************************************************)
(* The status request and the device's answer.  The request is a task the  *)
(* constructor created; the device answers it with one STATUS1 message,    *)
(* which the broker hands to the subscriptions active when it arrives.     *)
(* STATUS1 is not retained: with no subscription the message is gone.      *)
(***************************************************************************)
\* _request_device_info runs: the request is published and the device
\* sends its answer.
RequestStatus ==
    \E t \in BagToSet(tasks) :
        /\ t.t = "status_request"
        /\ reply = "idle"
        /\ tasks' = tasks (-) SetToBag({t})
        /\ reply' = "inflight"
        /\ last' = Last(t.t, None, "none", FALSE, FALSE, <<t.pub>>)
        /\ UNCHANGED <<restored, variant, hvac_mode_map, pc, ent, subs, cmd, retained, entry, discovered, created,
                       signals, configured, batch>>

\* The answer reaches the broker.
ReplyArrives(P) ==
    \E p \in P :
        /\ reply = "inflight"
        /\ IF "info" \in subs
           THEN LET r == info_received(ent, p)
                IN  /\ ent' = r.e
                    /\ tasks' = tasks (+) SetToBag(r.sched)
                    /\ last' = Last("info_received", p, r.exc, r.caught, r.notified, << >>)
                    /\ reply' = "delivered"
           ELSE /\ reply' = "lost"
                /\ UNCHANGED <<restored, ent, tasks, last>>
        /\ UNCHANGED <<restored, variant, hvac_mode_map, pc, subs, cmd, retained, entry, discovered, created, signals,
                       configured, batch>>

ReplyPayloads ==
    {InfoMsgOf("object", "object", Mac1, AbsentMac),
     InfoMsgOf("object", "absent", AbsentMac, Mac2)}

\* The tasks other than the status request.
RunOtherTask ==
    RunTask /\ \E t \in BagToSet(tasks) :
                   t.t # "status_request" /\ CopiesIn(t, tasks') < CopiesIn(t, tasks)

NextReply ==
    \/ AddDiscovery(StoredStates)
    \/ SubscribeTopics
    \/ RequestStatus
    \/ ReplyArrives(ReplyPayloads)
    \/ RunOtherTask
    \/ AvailabilityMsg(LWTPayloads)
    \/ SensorMsg({SensorMsgOf("object", "MiElHVAC", "object", Num(205))})

\* The event loop runs every task and every coroutine to its end, and the
\* broker delivers what it was sent.
SpecReply ==
    /\ InitNamed
    /\ [][NextReply]_vars
    /\ WF_vars(AddDiscovery(StoredStates))
    /\ WF_vars(SubscribeTopics)
    /\ WF_vars(RequestStatus)
    /\ WF_vars(ReplyArrives(ReplyPayloads))
    /\ WF_vars(RunOtherTask)

(***************************************************************************)
(* C25.  An entity created without a MAC whose device answers the status   *)
(* request with a STATUS1 message carrying a MAC is eventually linked.     *)
(***************************************************************************)
C25_AnswerEventuallyLinks ==
    (reply = "inflight") ~> TruthyMac(ent.mac_address)

(***************************************************************************)
(* C26.  In the discovery variant, after a valid command and the device's  *)
(* HVACSETTINGS echo of it have both been processed, the fields the echo   *)
(* reports hold the reported values: when the echo is handled between the  *)
(* command's publish and its optimistic update, and when it is handled     *)
(* after the update.                                                       *)
(***************************************************************************)
\* What the device reports after it has applied the published command.
CommandEcho(c) ==
    CASE c.op = "set_temperature" -> Object([key \in {"Temp"} |-> Num(int(c.arg.n) * 10)])
      [] c.op = "set_hvac_mode" ->
             Object([key \in {"HAMode"} |-> Str(HVAC_MODE_REVERSE_MAP[c.arg.s])])
      [] c.op = "set_fan_mode" -> Object([key \in {"FanSpeed"} |-> c.arg])
      [] c.op = "set_swing_mode" -> Object([key \in {"SwingV"} |-> c.arg])

AsReported(e, p) == e = SettingsApplied(e, p.o)

C26_EchoConverges ==
    [][/\ \A c \in BagToSet(cmd) :
             (/\ last.op = "state_received"
              /\ last.arg = CommandEcho(c)
              /\ last'.op = "optimistic_update"
              /\ Resumed(c)) => AsReported(ent', last.arg)
       /\ (/\ last.op = "optimistic_update"
           /\ last'.op = "state_received"
           /\ WellFormedSettings(last'.arg)) => AsReported(ent', last'.arg)]_vars

RetainedTopics(r, ts) == DOMAIN r \cup {t.pub.topic : t \in {u \in BagToSet(ts) : u.pub.retain}}

\* A discovery signal for the entity that carries a MAC other than the one
\* the entity has.
ReplacesMac(l, e) ==
    /\ l.op = "async_discover_hvac"
    /\ l.arg.device_id = e.device_id
    /\ TruthyMac(l.arg.mac)
    /\ l.arg.mac # e.mac_address

=============================================================================
